---- MODULE Spec2Model ----
(***************************************************************************)
(* RecOrder: the hot-dog log.  Three stores are modelled:                  *)
(*   - the local-storage store   (src/src/composables/useHotdogStore.ts)   *)
(*   - the Supabase store        (useHotdogStoreSupabase.ts)               *)
(*   - the Broadcast store       (useHotdogStoreBroadcast.ts)              *)
(* The two backend-backed stores share the variables of the backend        *)
(* tables and differ in the variable `variant`.                            *)
(***************************************************************************)
EXTENDS Integers, Sequences, FiniteSets, TLC

VARIABLES
    \* ---- local-storage store (useHotdogStore.ts)
    lEntries,          \* entries.value: sequence of [id, createdAt, toppings]
    lToppingOptions,   \* toppingOptions.value: sequence of names
    lStorage,          \* localStorage['recorder.hotdogs.v1'] as written by persist
    lUsedIds,          \* the ids createId() has returned so far
    adds,              \* history: addEntry calls that created an entry
    dels,              \* history: deleteEntry calls whose id was present
    lastCall,          \* history: the last call made to this store, with its input
    \* ---- backend-backed stores
    variant,           \* "supabase" or "broadcast": which module is loaded
    dbEntries,         \* table hotdog_entries: set of rows
    dbEntryToppings,   \* table entry_toppings: rows in insertion order
    dbToppings,        \* table topping_options: set of rows
    nextId,            \* the next id the backend generates
    entries,           \* entries.value
    toppingOptions,    \* toppingOptions.value
    loading,           \* loading.value
    error,             \* error.value
    lsV2,              \* localStorage['recorder.hotdogs.v2']
    lsV1,              \* localStorage['recorder.hotdogs.v1']
    runs,              \* history: one summary per migrateFromLocalStorage run
    lastDone,          \* history: the completion calls that succeeded last
    \* ---- realtime subscription (subscribeToEntries)
    clock,             \* milliseconds since the subscription was made
    timers,            \* the browser's pending timeouts: set of [id, due]
    debounceTimer,     \* Broadcast: the handle setTimeout returned last, or null
    nextTimer,         \* the handle the next setTimeout returns
    notified,          \* history: change notifications received
    lastNote,          \* history: the clock at the last notification
    bursts,            \* history: bursts of notifications begun
    rtFetches,         \* history: fetchEntries calls the subscription started
    realtimeChannel,   \* Broadcast: realtimeChannel; Supabase: the channel returned
    channels,          \* the channels subscribed: created and not removed
    outbox,            \* history: the broadcasts the last store operation sent
    \* ---- the views (computed properties)
    shown,             \* what a component read last from the computed properties
    \* ---- asynchronous calls
    mountPc,           \* the call onMounted (App.vue) makes next, or "done"
    inFlight,          \* the calls of store functions suspended at an await
    covered,           \* history: a fetchEntries call was started after the
                       \* last write to the backend
    \* ---- shared
    now                \* the clock (new Date(), the backend's now())

localVars   == <<lEntries, lToppingOptions, lStorage, lUsedIds, adds, dels, lastCall>>
backendVars == <<variant, dbEntries, dbEntryToppings, dbToppings, nextId,
                 entries, toppingOptions, loading, error, lsV2, lsV1, runs,
                 lastDone>>
rtVars      == <<clock, timers, debounceTimer, nextTimer, notified, lastNote,
                 bursts, rtFetches>>
chanVars    == <<realtimeChannel, channels, outbox>>
flightVars  == <<inFlight, covered>>
asyncVars   == <<mountPc, flightVars>>
vars        == <<localVars, backendVars, rtVars, chanVars, shown, asyncVars, now>>

(***************************************************************************)
(* Bounds of the model.                                                    *)
(***************************************************************************)
MaxLocalOps   == 3   \* ids createId() hands out in the local store
MaxRows       == 2   \* ids the backend hands out to addEntry calls
MaxRecords    == 2   \* legacy records held by the two blobs together
MaxRuns       == 2   \* migrateFromLocalStorage runs
MaxLegacyTime == 1   \* legacy createdAt values are 1..MaxLegacyTime
MaxTicks      == 1   \* clock ticks after start-up
MaxNotifications == 3   \* change notifications the subscription receives
MaxClock      == 900   \* milliseconds of the realtime clock
MaxViewEntries == 3   \* entries in a collection whose views are read
MaxToppings   == 4   \* rows of topping_options
MaxCalls      == 2   \* calls of store functions in flight at once
MaxChannels   == 2   \* channels subscribed at once

(***************************************************************************)
(* Values.                                                                 *)
(***************************************************************************)
\* completed_at: string | null  -- timestamps are 1, 2, ...; null is 0
NullTime == 0
NoBlob   == [shape |-> "none", records |-> <<>>]   \* getItem() returned null
\* no completion call has succeeded since the last other mutation
NoCall   == [op |-> "none", id |-> 0]
NoError  == "null"                                   \* error.value = null
ErrorMessage == "message"                            \* error.value = e.message

LegacyTimes == 1..MaxLegacyTime
StartTime   == MaxLegacyTime + 1

(***************************************************************************)
(* The local-storage store: useHotdogStore.ts                              *)
(***************************************************************************)
defaultToppings == <<"Cheese", "Onion", "Salsa", "Curry", "Honey">>

\* the topping selections the form can submit (the empty one included)
LocalSelections == {<<>>, <<"Cheese">>, <<"Onion", "Cheese">>, <<"Cheese", "Cheese">>}

\* the values createId() can return: random, never one it returned before
LocalIds == 1..MaxLocalOps

\* JSON.stringify of { entries, toppingOptions }
Payload(es, opts) == [shape |-> "object", records |-> es, toppingOptions |-> opts]

\* persist(), run by the watcher after a handler that changed entries or
\* toppingOptions
Persist(es, opts) == Payload(es, opts)

totalHotdogs == Len(lEntries)

\* entries.value.push(entry)
PushEntry(es, e) == Append(es, e)

\* a filter that keeps every entry
FilterKeepAll(es, id) == es

\* entries.value.filter((entry) => entry.id !== id)
FilterOutId(es, id) == SelectSeq(es, LAMBDA e : e.id # id)

\* addEntry without the early return for an empty topping list
AddEntryUnguarded(toppings) ==
    \E id \in LocalIds \ lUsedIds :
        /\ lEntries' = PushEntry(lEntries,
                         [id |-> id, createdAt |-> now, toppings |-> toppings])
        /\ lUsedIds' = lUsedIds \cup {id}
        /\ adds' = adds + 1
        /\ lStorage' = Persist(lEntries', lToppingOptions)

\* addEntry(toppings)
AddEntryBody(toppings) ==
    IF Len(toppings) = 0
    THEN UNCHANGED <<lEntries, lUsedIds, adds, lStorage>>
    ELSE \E id \in LocalIds \ lUsedIds :
            /\ lEntries' = PushEntry(lEntries,
                             [id |-> id, createdAt |-> now, toppings |-> toppings])
            /\ lUsedIds' = lUsedIds \cup {id}
            /\ adds' = adds + 1
            /\ lStorage' = Persist(lEntries', lToppingOptions)

LAddEntry ==
    \E toppings \in LocalSelections :
        /\ AddEntryBody(toppings)
        /\ lastCall' = [op |-> "addEntry", arg |-> toppings]
        /\ UNCHANGED <<lToppingOptions, dels, backendVars, rtVars, chanVars,
                   shown, asyncVars, now>>

\* deleteEntry(id): the id of an entry, or one no entry has
LDeleteEntry ==
    \E id \in LocalIds :
        /\ lEntries' = FilterOutId(lEntries, id)
        /\ dels' = IF \E i \in 1..Len(lEntries) : lEntries[i].id = id
                   THEN dels + 1 ELSE dels
        \* entries.value is assigned a new array: the watcher persists
        /\ lStorage' = Persist(lEntries', lToppingOptions)
        /\ lastCall' = [op |-> "deleteEntry", arg |-> id]
        /\ UNCHANGED <<lToppingOptions, lUsedIds, adds, backendVars, rtVars, chanVars,
                   shown, asyncVars, now>>

\* clearAllData(): removeItem, then the watcher persists the emptied state.
\* The two histories count the calls since construction or the last clear.
LClearAllData ==
    /\ lEntries' = <<>>
    /\ lToppingOptions' = defaultToppings
    /\ lStorage' = Persist(lEntries', lToppingOptions')
    /\ adds' = 0
    /\ dels' = 0
    /\ lastCall' = [op |-> "clearAllData", arg |-> 0]
    /\ UNCHANGED <<lUsedIds, backendVars, rtVars, chanVars,
                   shown, asyncVars, now>>

\* time passes
Tick ==
    /\ now < StartTime + MaxTicks
    /\ now' = now + 1
    /\ UNCHANGED <<localVars, backendVars, rtVars, chanVars, shown, asyncVars>>

(***************************************************************************)
(* The backend: the tables hotdog_entries, entry_toppings, topping_options *)
(* as the store modules use them through the supabase client.              *)
(***************************************************************************)
Variants == {"supabase", "broadcast"}

\* the seeded rows of topping_options
SeedCatalog ==
    { [id |-> 1, name |-> "Cheese", emoji |-> "C", display_order |-> 0],
      [id |-> 2, name |-> "Onion",  emoji |-> "O", display_order |-> 1] }

RECURSIVE ByCreatedAt(_)
\* .order('created_at', { ascending: true }): the rows by ascending created_at;
\* the backend returns rows of equal created_at in any order
ByCreatedAt(S) ==
    IF S = {} THEN {<<>>}
    ELSE LET firsts == {r \in S : \A q \in S : r.created_at <= q.created_at}
         IN UNION {{<<r>> \o p : p \in ByCreatedAt(S \ {r})} : r \in firsts}

RECURSIVE ByDisplayOrder(_)
\* .order('display_order', { ascending: true })
ByDisplayOrder(S) ==
    IF S = {} THEN {<<>>}
    ELSE LET firsts == {t \in S : \A q \in S : t.display_order <= q.display_order}
         IN UNION {{<<t>> \o p : p \in ByDisplayOrder(S \ {t})} : t \in firsts}

\* a row of hotdog_entries
EntryRow(id, createdAt, completed, completedAt) ==
    [id |-> id, created_at |-> createdAt, completed |-> completed,
     completed_at |-> completedAt]

RECURSIVE InsertByOrder(_, _)
\* one step of the stable sort by display_order
InsertByOrder(sorted, t) ==
    IF sorted = <<>> THEN <<t>>
    ELSE IF t.display_order < Head(sorted).display_order
         THEN <<t>> \o sorted
         ELSE <<Head(sorted)>> \o InsertByOrder(Tail(sorted), t)

RECURSIVE SortByDisplayOrder(_)
\* .sort((a, b) => a.display_order - b.display_order), a stable sort
SortByDisplayOrder(ts) ==
    IF ts = <<>> THEN <<>>
    ELSE InsertByOrder(SortByDisplayOrder(SubSeq(ts, 1, Len(ts) - 1)), ts[Len(ts)])

\* the embedded topping_options of an entry_toppings row whose topping is not
\* in topping_options: null
NoTopping == [id |-> 0, name |-> "null", emoji |-> "null", display_order |-> 0]

RECURSIVE Embedded(_, _, _)
\* entry_toppings (topping_options (*)) of an entry: for each of its rows, in
\* row order, the topping_options row it refers to, or null
Embedded(ets, cat, entryId) ==
    IF ets = <<>> THEN <<>>
    ELSE LET rest == Embedded(Tail(ets), cat, entryId)
             et   == Head(ets)
         IN IF et.entry_id # entryId THEN rest
            ELSE IF \E t \in cat : t.id = et.topping_id
                 THEN <<CHOOSE t \in cat : t.id = et.topping_id>> \o rest
                 ELSE <<NoTopping>> \o rest

\* .filter(Boolean)
Truthy(tops) == SelectSeq(tops, LAMBDA t : t # NoTopping)

\* Supabase: .map((et) => et.topping_options).filter(Boolean).sort(...);
\* Broadcast: entry.entry_toppings?.map((et) => et.topping_options) || []
ToppingsOf(v, embedded) ==
    IF v = "supabase" THEN SortByDisplayOrder(Truthy(embedded)) ELSE embedded

\* { ...entry, toppings }
EntryWith(row, toppings) ==
    [id |-> row.id, created_at |-> row.created_at, completed |-> row.completed,
     completed_at |-> row.completed_at, toppings |-> toppings]

\* one element of entries.value: the row with its toppings
WithToppings(v, row, ets, cat) ==
    EntryWith(row, ToppingsOf(v, Embedded(ets, cat, row.id)))

\* what a successful fetchEntries() assigns to entries.value when the
\* backend does not change while it runs
FetchResults(v, rows, ets, cat) ==
    { [i \in 1..Len(p) |-> WithToppings(v, p[i], ets, cat)] : p \in ByCreatedAt(rows) }

(***************************************************************************)
(* Legacy blobs.  A blob is the text under a localStorage key; its shape   *)
(* says what JSON.parse makes of it: "invalid" (parse throws), "array"     *)
(* ([record, ...]) or "object" ({ entries: [record, ...], ... }).          *)
(***************************************************************************)
LegacyToppingLists == {<<"Cheese">>, <<"Ghost", "Onion">>}

\* a record of the v2 store; completedAt may be absent (NullTime)
V2Records ==
    [createdAt : LegacyTimes, completed : {"true", "false"},
     completedAt : {NullTime} \cup LegacyTimes, toppings : LegacyToppingLists]

\* a record of the v1 store: no completion fields
V1Records == [createdAt : LegacyTimes, toppings : LegacyToppingLists]

SeqsUpTo(S, n) == UNION {[1..k -> S] : k \in 0..n}

Blobs(Records, n) ==
    {NoBlob, [shape |-> "invalid", records |-> <<>>]}
      \cup [shape : {"array", "object"}, records : SeqsUpTo(Records, n)]

\* the states of localStorage at start-up
Storages ==
    {st \in [v2 : Blobs(V2Records, MaxRecords), v1 : Blobs(V1Records, MaxRecords)] :
        Len(st.v2.records) + Len(st.v1.records) <= MaxRecords}

\* getItem(key) returned a string
Present(blob) == blob.shape # "none"

\* a run that would look at the v1 blob first
PickedKeyV1First(v2, v1) ==
    IF Present(v1) THEN "v1" ELSE IF Present(v2) THEN "v2" ELSE "none"

\* the blob a run migrates: v2 when present, else v1
PickedKey(v2, v1) ==
    IF Present(v2) THEN "v2" ELSE IF Present(v1) THEN "v1" ELSE "none"

\* Supabase: { ...entry, completed: true, completedAt: entry.createdAt }
V1EntryToLocalEntry(r) ==
    [createdAt |-> r.createdAt, completed |-> "true",
     completedAt |-> r.createdAt, toppings |-> r.toppings]

\* Broadcast: migrateV1Data inserts completed: false, completed_at: null
V1EntryPending(r) ==
    [createdAt |-> r.createdAt, completed |-> "false",
     completedAt |-> NullTime, toppings |-> r.toppings]

\* can the variant iterate over the parsed blob?  Supabase reads both blobs
\* as arrays; Broadcast reads data.entries of v2 (of an array that is the
\* method Array.prototype.entries, which for-of cannot iterate) and the array
\* of v1.  Anything else throws a TypeError, an invalid text a SyntaxError.
Iterable(v, key, blob) ==
    CASE v = "supabase"                   -> blob.shape = "array"
      [] v = "broadcast" /\ key = "v2"    -> blob.shape = "object"
      [] v = "broadcast" /\ key = "v1"    -> blob.shape = "array"

\* the records the loop of the variant runs over
LoopRecords(v, key, blob) ==
    CASE ~Iterable(v, key, blob)      -> <<>>
      [] key = "v2"                   -> blob.records
      [] v = "supabase" /\ key = "v1" ->
            [i \in 1..Len(blob.records) |-> V1EntryToLocalEntry(blob.records[i])]
      [] v = "broadcast" /\ key = "v1" ->
            [i \in 1..Len(blob.records) |-> V1EntryPending(blob.records[i])]

\* a lookup that ignores the name
FindAnyName(opts, name) == IF opts = <<>> THEN <<>> ELSE <<opts[1]>>

\* toppingOptions.value.find((opt) => opt.name === toppingName): the first
\* match as a one-element sequence, or the empty sequence
FindByName(opts, name) ==
    LET hits == {i \in 1..Len(opts) : opts[i].name = name}
    IN IF hits = {} THEN <<>>
       ELSE <<opts[CHOOSE i \in hits : \A j \in hits : i <= j]>>

RECURSIVE ResolveToppings(_, _)
\* .map(name => find(...)?.id).filter(Boolean): the catalog toppings of the
\* names that match, in the order of the names
ResolveToppings(names, opts) ==
    IF names = <<>> THEN <<>>
    ELSE FindByName(opts, Head(names)) \o ResolveToppings(Tail(names), opts)

\* completed: localEntry.completed || false
CompletedOf(r) == r.completed = "true"
\* completed_at: localEntry.completedAt || null
CompletedAtOf(r) == r.completedAt


\* .insert({ created_at, completed, completed_at }).select().single()
RowOf(r, id) == EntryRow(id, r.createdAt, CompletedOf(r), CompletedAtOf(r))

EntryToppingRows(entryId, ids) ==
    [i \in 1..Len(ids) |-> [entry_id |-> entryId, topping_id |-> ids[i]]]

(***************************************************************************)
(* The operations of the backend-backed stores.  Each is an async          *)
(* function: a call runs up to its next await, where the event loop is     *)
(* free for other calls and callbacks, and goes on when the awaited        *)
(* backend call has returned.  inFlight holds the calls suspended at an    *)
(* await, a call made and awaited by another function being part of its    *)
(* caller's record.  A write is run by the backend in the step in which    *)
(* its response resumes the call; a select is run by the backend in a step *)
(* of its own (SelectAnswered), so that it can return rows that are stale  *)
(* when the call resumes.                                                  *)
(***************************************************************************)
\* the topping ids the form can submit (the empty selection included)
Selections == {<<>>, <<1>>, <<2, 1>>}

\* the variables the store functions read and write, as one record
Store ==
    [entries |-> entries, toppingOptions |-> toppingOptions, loading |-> loading,
     error |-> error, dbEntries |-> dbEntries, dbEntryToppings |-> dbEntryToppings,
     dbToppings |-> dbToppings, nextId |-> nextId, lsV2 |-> lsV2, lsV1 |-> lsV1,
     runs |-> runs, lastDone |-> lastDone, outbox |-> outbox, mountPc |-> mountPc,
     inFlight |-> inFlight, covered |-> covered]

\* the step leaves the store as s
Becomes(s) ==
    /\ entries' = s.entries
    /\ toppingOptions' = s.toppingOptions
    /\ loading' = s.loading
    /\ error' = s.error
    /\ dbEntries' = s.dbEntries
    /\ dbEntryToppings' = s.dbEntryToppings
    /\ dbToppings' = s.dbToppings
    /\ nextId' = s.nextId
    /\ lsV2' = s.lsV2
    /\ lsV1' = s.lsV1
    /\ runs' = s.runs
    /\ lastDone' = s.lastDone
    /\ outbox' = s.outbox
    /\ mountPc' = s.mountPc
    /\ inFlight' = s.inFlight
    /\ covered' = s.covered

\* what no store function changes
storeFrame == <<variant, localVars, rtVars, realtimeChannel, channels, shown, now>>

\* the numbers free for a new call
FreeIds == (1..MaxCalls) \ {c.id : c \in inFlight}

\* history: nothing is remembered of the call
NoTables == [entries |-> <<>>, rows |-> {}, ets |-> <<>>]

\* history: entries.value and the two tables as a mutation found them,
\* remembered while the mutation makes its writes
Tables(s) == [entries |-> s.entries, rows |-> s.dbEntries, ets |-> s.dbEntryToppings]

\* a call of the store function op, made by a component ("component"), by
\* onMounted ("onMounted") or by a callback of the subscription
\* ("subscription"): where it is suspended, the response of the select it
\* awaits, its local variables, and what it found when it was made
NewCall(op, by) ==
    [id |-> CHOOSE i \in FreeIds : \A j \in FreeIds : i <= j,
     op |-> op, by |-> by, at |-> "start", answered |-> "no", snap |-> <<>>,
     entryId |-> 0, ids |-> <<>>, names |-> <<>>, rows |-> <<>>, got |-> <<>>,
     time |-> NullTime, name |-> "", order |-> 0, run |-> 0, k |-> 0,
     was |-> NoTables]

\* the call is suspended as c says
Put(s, c) == [s EXCEPT !.inFlight = {d \in @ : d.id # c.id} \cup {c}]

\* the call sends a request and awaits its response
Await(c, at) == [c EXCEPT !.at = at, !.answered = "no", !.snap = <<>>]

\* loading.value = true; error.value = null
Enter(s) == [s EXCEPT !.loading = TRUE, !.error = NoError]

\* onMounted (App.vue): await initializeStore(), await
\* migrateFromLocalStorage(), await fetchEntries(), subscribeToEntries()
AfterCall(call) ==
    CASE call = "initializeStore"         -> "migrateFromLocalStorage"
      [] call = "migrateFromLocalStorage" -> "fetchEntries"
      [] call = "fetchEntries"            -> "subscribeToEntries"
      [] call = "subscribeToEntries"      -> "done"

\* the call returns: when onMounted made it, the handler goes on to its next
\* statement, whatever the call's outcome (each store function catches its
\* own errors); the run of a migration is over
Return(s, c) ==
    [s EXCEPT !.inFlight = {d \in @ : d.id # c.id},
              !.mountPc = IF c.by = "onMounted" THEN AfterCall(@) ELSE @,
              !.runs = IF c.op = "migrateFromLocalStorage"
                       THEN [@ EXCEPT ![c.run].done = TRUE] ELSE @]

\* finally { loading.value = false }
Finally(s, c) == Return([s EXCEPT !.loading = FALSE], c)

\* the entryId 'ALL' of the broadcast of clearAllEntries; entry ids are 1, 2, ...
AllEntries == 0

\* the eventType a mutation broadcasts
EventType(op) ==
    CASE op = "addEntry"                       -> "INSERT"
      [] op \in {"deleteEntry", "clearAll"}    -> "DELETE"
      [] OTHER                                 -> "UPDATE"

\* Broadcast, broadcastChange(eventType, entryId), the last statement of the
\* try block of a mutation: returns at once without a channel, else awaits
\* channel.send
BroadcastChangeCalled(s, c, entryId) ==
    IF realtimeChannel # "open" THEN Finally(s, c)
    ELSE Put([s EXCEPT !.outbox =
                 Append(@, [event |-> "entry_change", eventType |-> EventType(c.op),
                            entryId |-> entryId, backend |-> s.dbEntries])],
             Await(c, "send"))

\* Broadcast, broadcastToppingChange()
BroadcastToppingChangeCalled(s, c) ==
    IF realtimeChannel # "open" THEN Finally(s, c)
    ELSE Put([s EXCEPT !.outbox = Append(@, [event |-> "topping_change"])],
             Await(c, "send"))

\* a catch block that goes on to the broadcast of the mutation
CatchThenBroadcast(s, c) ==
    BroadcastChangeCalled([s EXCEPT !.error = ErrorMessage], c, c.entryId)

\* catch (e) { error.value = e.message } finally { loading.value = false }
Catch(s, c) == Finally([s EXCEPT !.error = ErrorMessage], c)

\* the mutations of the entries
Mutations == {"addEntry", "deleteEntry", "completeEntry", "uncompleteEntry", "clearAll"}

\* initializeStore() up to its await
InitializeStoreCalled(s, c) == Put(Enter(s), Await(c, "selectToppingOptions"))

\* the select of initializeStore has returned; after its finally block the
\* caller (addCustomTopping of Supabase) runs its own finally block
InitializeStoreResumed(s, c) ==
    IF c.answered = "error" THEN Catch(s, c)
    ELSE Finally([s EXCEPT !.toppingOptions = c.snap], c)

\* fetchEntries() up to its await
FetchEntriesCalled(s, c) ==
    Put([Enter(s) EXCEPT !.covered = TRUE],
        [Await(c, "selectEntries") EXCEPT !.was = NoTables])

\* the statement after `await fetchEntries()` in the function that called it:
\* the broadcast of a Broadcast mutation, else its finally block
AfterFetchEntries(s, c) ==
    CASE c.op = "fetchEntries"                       -> Return(s, c)
      [] variant = "broadcast" /\ c.op \in Mutations -> BroadcastChangeCalled(s, c, c.entryId)
      [] OTHER                                       -> Finally(s, c)

\* finally { loading.value = false } of fetchEntries, then its caller goes on
FetchEntriesReturns(s, c) == AfterFetchEntries([s EXCEPT !.loading = FALSE], c)

\* catch of fetchEntries: entries.value is left alone
FetchEntriesThrown(s, c) ==
    FetchEntriesReturns([s EXCEPT !.error = ErrorMessage, !.covered = FALSE], c)

\* the select of hotdog_entries has returned.  Broadcast selected the rows
\* with their toppings embedded; Supabase goes on to select the toppings of
\* each row, one awaited select per row
FetchEntriesResumed(s, c) ==
    IF c.answered = "error" THEN FetchEntriesThrown(s, c)
    ELSE IF variant = "broadcast" \/ c.snap = <<>>
         THEN FetchEntriesReturns([s EXCEPT !.entries = c.snap], c)
         ELSE Put(s, [Await(c, "selectEntryToppings") EXCEPT
                         !.rows = c.snap, !.got = <<>>])

\* Supabase: the select of the entry_toppings of one row has returned
EntryToppingsResumed(s, c) ==
    IF c.answered = "error" THEN FetchEntriesThrown(s, c)
    ELSE LET got == Append(c.got, EntryWith(Head(c.rows), ToppingsOf("supabase", c.snap)))
         IN IF Tail(c.rows) = <<>>
            THEN FetchEntriesReturns([s EXCEPT !.entries = got], c)
            ELSE Put(s, [Await(c, "selectEntryToppings") EXCEPT
                            !.rows = Tail(c.rows), !.got = got])

\* the awaits that are selects
Selects == {"selectToppingOptions", "selectEntries", "selectEntryToppings",
            "selectMaxOrder"}

\* the greatest display_order of a non-empty collection of toppings
MaxDisplayOrder(S) ==
    (CHOOSE t \in S : \A q \in S : q.display_order <= t.display_order).display_order

\* .order('display_order', { ascending: false }).limit(1).single(): a row
\* of the greatest display_order, none of an empty table
MaxOrderRows(cat) ==
    IF cat = {} THEN {<<>>}
    ELSE {<<t>> : t \in {q \in cat : q.display_order = MaxDisplayOrder(cat)}}

\* what the select a call awaits returns when the backend runs it now
Selected(c) ==
    CASE c.at = "selectToppingOptions" -> ByDisplayOrder(dbToppings)
      [] c.at = "selectEntries" ->
            IF variant = "broadcast"
            THEN FetchResults("broadcast", dbEntries, dbEntryToppings, dbToppings)
            ELSE ByCreatedAt(dbEntries)
      [] c.at = "selectEntryToppings" ->
            {Embedded(dbEntryToppings, dbToppings, Head(c.rows).id)}
      [] c.at = "selectMaxOrder" ->
            MaxOrderRows(dbToppings)

\* the backend runs the select a call awaits, or fails
SelectAnswered ==
    \E c \in inFlight, ok \in BOOLEAN :
        /\ c.at \in Selects
        /\ c.answered = "no"
        /\ IF ok
           THEN \E snap \in Selected(c) :
                   inFlight' = (inFlight \ {c}) \cup
                                  {[c EXCEPT !.answered = "ok", !.snap = snap]}
           ELSE inFlight' = (inFlight \ {c}) \cup {[c EXCEPT !.answered = "error"]}
        /\ UNCHANGED <<entries, toppingOptions, loading, error, dbEntries,
                       dbEntryToppings, dbToppings, nextId, lsV2, lsV1, runs,
                       lastDone, outbox, mountPc, covered, storeFrame>>

\* a store function can be called: a number is free for the call, and
\* onMounted makes the call it has come to
MayCall(op, by) ==
    /\ FreeIds # {}
    /\ by = "onMounted" => mountPc = op /\ \A c \in inFlight : c.by # "onMounted"

\* initializeStore()
InitializeStore(by) ==
    /\ MayCall("initializeStore", by)
    /\ Becomes(InitializeStoreCalled(Store, NewCall("initializeStore", by)))
    /\ UNCHANGED storeFrame

InitializeStoreResumes ==
    \E c \in inFlight :
        /\ c.at = "selectToppingOptions"
        /\ c.answered # "no"
        /\ Becomes(InitializeStoreResumed(Store, c))
        /\ UNCHANGED storeFrame

\* fetchEntries()
FetchEntries(by) ==
    /\ MayCall("fetchEntries", by)
    /\ Becomes(FetchEntriesCalled(Store, NewCall("fetchEntries", by)))
    /\ UNCHANGED storeFrame

FetchEntriesResumes ==
    \E c \in inFlight :
        /\ c.at = "selectEntries"
        /\ c.answered # "no"
        /\ Becomes(FetchEntriesResumed(Store, c))
        /\ UNCHANGED storeFrame

EntryToppingsResumes ==
    \E c \in inFlight :
        /\ c.at = "selectEntryToppings"
        /\ c.answered # "no"
        /\ Becomes(EntryToppingsResumed(Store, c))
        /\ UNCHANGED storeFrame

\* channel.send has returned (its result is not looked at): the finally
\* block of the mutation
BroadcastSent ==
    \E c \in inFlight :
        /\ c.at = "send"
        /\ Becomes(Finally(Store, c))
        /\ UNCHANGED storeFrame

\* addEntry(toppingIds) up to its first await
AddEntryCalled(s, c, ids) ==
    Put([Enter(s) EXCEPT !.outbox = <<>>, !.lastDone = NoCall],
        [Await(c, "insertEntry") EXCEPT !.ids = ids, !.was = Tables(s)])

\* the insert into hotdog_entries has returned: the row is inserted whatever
\* the selection; only the entry_toppings insert is skipped for an empty one
EntryInserted(s, c, ok) ==
    IF ~ok THEN Catch(s, c)
    ELSE LET t == [s EXCEPT !.dbEntries = @ \cup {EntryRow(s.nextId, now, FALSE, NullTime)},
                            !.nextId = @ + 1, !.covered = FALSE]
             d == [c EXCEPT !.entryId = s.nextId]
         IN IF c.ids = <<>> THEN FetchEntriesCalled(t, d)
            ELSE Put(t, Await(d, "insertEntryToppings"))

\* the insert into entry_toppings has returned
EntryToppingsInserted(s, c, ok) ==
    IF ~ok THEN Catch(s, c)
    ELSE FetchEntriesCalled(
            [s EXCEPT !.dbEntryToppings = @ \o EntryToppingRows(c.entryId, c.ids)], c)

\* addEntry(toppingIds)
AddEntry(by) ==
    \E ids \in Selections :
        /\ nextId + Cardinality({c \in inFlight : c.at = "insertEntry"}) <= MaxRows
        /\ MayCall("addEntry", by)
        /\ Becomes(AddEntryCalled(Store, NewCall("addEntry", by), ids))
        /\ UNCHANGED storeFrame

\* an update that does not look at the id
UpdateCompletionOfAll(rows, id, completed, completedAt) ==
    {EntryRow(r.id, r.created_at, completed, completedAt) : r \in rows}

\* the update of completeEntry(id) / uncompleteEntry(id): .update(...).eq('id', id)
UpdateCompletion(rows, id, completed, completedAt) ==
    {IF r.id = id THEN EntryRow(r.id, r.created_at, completed, completedAt) ELSE r :
        r \in rows}

\* the history of completion calls: completeEntry(id) whose update succeeded,
\* uncompleteEntry(id) whose update succeeded right after it ("pair") or
\* otherwise
CompletionHistory(last, id, completed) ==
    CASE completed -> [op |-> "complete", id |-> id]
      [] OTHER     -> IF last = [op |-> "complete", id |-> id]
                      THEN [op |-> "pair", id |-> id]
                      ELSE [op |-> "uncomplete", id |-> id]

\* completeEntry(id) / uncompleteEntry(id) up to the await: completed_at is
\* new Date() of the call, or null
SetCompletionCalled(s, c, id) ==
    Put([Enter(s) EXCEPT !.outbox = <<>>],
        [Await(c, "updateEntry") EXCEPT
            !.entryId = id, !.was = Tables(s),
            !.time = IF c.op = "completeEntry" THEN now ELSE NullTime])

\* the update has returned: fetchEntries() is called
EntryUpdated(s, c, ok) ==
    IF ~ok THEN Catch([s EXCEPT !.lastDone = NoCall], c)
    ELSE FetchEntriesCalled(
            [s EXCEPT !.dbEntries = UpdateCompletion(@, c.entryId,
                                                     c.op = "completeEntry", c.time),
                      !.lastDone = CompletionHistory(@, c.entryId,
                                                     c.op = "completeEntry")], c)

\* completeEntry(id): the id of a row, or one no row has
CompleteEntry(by) ==
    \E id \in 1..nextId :
        /\ MayCall("completeEntry", by)
        /\ Becomes(SetCompletionCalled(Store, NewCall("completeEntry", by), id))
        /\ UNCHANGED storeFrame

\* uncompleteEntry(id)
UncompleteEntry(by) ==
    \E id \in 1..nextId :
        /\ MayCall("uncompleteEntry", by)
        /\ Becomes(SetCompletionCalled(Store, NewCall("uncompleteEntry", by), id))
        /\ UNCHANGED storeFrame

\* .from('entry_toppings').delete().eq('entry_id', id)
WithoutToppingsOf(ets, id) == SelectSeq(ets, LAMBDA et : et.entry_id # id)

\* a deleteEntry that drops the entry from entries.value before the backend
\* has confirmed
DeleteEntryCalledOptimistic(s, c, id) ==
    Put([Enter(s) EXCEPT !.outbox = <<>>, !.lastDone = NoCall,
                         !.entries = SelectSeq(@, LAMBDA e : e.id # id)],
        [Await(c, IF variant = "broadcast" THEN "deleteEntryToppings" ELSE "deleteEntry")
            EXCEPT !.entryId = id, !.was = Tables(s)])

\* deleteEntry(id) up to its first await.  Supabase deletes the hotdog_entries
\* row and relies on the backend to drop its entry_toppings; Broadcast
\* deletes them itself first.
DeleteEntryCalled(s, c, id) ==
    Put([Enter(s) EXCEPT !.outbox = <<>>, !.lastDone = NoCall],
        [Await(c, IF variant = "broadcast" THEN "deleteEntryToppings" ELSE "deleteEntry")
            EXCEPT !.entryId = id, !.was = Tables(s)])

\* Broadcast: the delete of the entry_toppings rows has returned
EntryToppingsDeleted(s, c, ok) ==
    IF ~ok THEN Catch(s, c)
    ELSE Put([s EXCEPT !.dbEntryToppings = WithoutToppingsOf(@, c.entryId),
                       !.covered = FALSE],
             Await(c, "deleteEntry"))

\* the delete of the hotdog_entries row has returned: fetchEntries() is called
EntryDeleted(s, c, ok) ==
    IF ~ok THEN Catch(s, c)
    ELSE FetchEntriesCalled(
            [s EXCEPT !.dbEntries = {r \in @ : r.id # c.entryId},
                      !.dbEntryToppings = WithoutToppingsOf(@, c.entryId)], c)

\* deleteEntry(id)
DeleteEntry(by) ==
    \E id \in 1..nextId :
        /\ MayCall("deleteEntry", by)
        /\ Becomes(DeleteEntryCalled(Store, NewCall("deleteEntry", by), id))
        /\ UNCHANGED storeFrame

\* clearAllData() of Supabase: delete every hotdog_entries row (the backend
\* drops their entry_toppings), then entries.value = [].
\* clearAllEntries() of Broadcast: delete every entry_toppings row, then every
\* hotdog_entries row, then entries.value = [] and the broadcast.
ClearAllCalled(s, c) ==
    Put([Enter(s) EXCEPT !.outbox = <<>>, !.lastDone = NoCall],
        [Await(c, IF variant = "broadcast" THEN "deleteAllEntryToppings"
                  ELSE "deleteAllEntries") EXCEPT !.was = Tables(s)])

\* Broadcast: the delete of all entry_toppings rows has returned
AllEntryToppingsDeleted(s, c, ok) ==
    IF ~ok THEN Catch(s, c)
    ELSE Put([s EXCEPT !.dbEntryToppings = <<>>, !.covered = FALSE],
             Await(c, "deleteAllEntries"))

\* the delete of all hotdog_entries rows has returned
AllEntriesDeleted(s, c, ok) ==
    IF ~ok THEN Catch(s, c)
    ELSE LET t == [s EXCEPT !.dbEntries = {}, !.dbEntryToppings = <<>>,
                            !.entries = <<>>, !.covered = FALSE]
         IN IF variant = "broadcast" THEN BroadcastChangeCalled(t, c, AllEntries)
            ELSE Finally(t, c)

ClearAll(by) ==
    /\ MayCall("clearAll", by)
    /\ Becomes(ClearAllCalled(Store, NewCall("clearAll", by)))
    /\ UNCHANGED storeFrame

\* the awaits of the mutations that are writes
MutationWrites == {"insertEntry", "insertEntryToppings", "updateEntry", "deleteEntryToppings",
                   "deleteEntry", "deleteAllEntryToppings", "deleteAllEntries"}

\* the write a mutation awaits has returned, with or without an error
MutationWritten(s, c, ok) ==
    CASE c.at = "insertEntry" -> EntryInserted(s, c, ok)
      [] c.at = "insertEntryToppings" -> EntryToppingsInserted(s, c, ok)
      [] c.at = "updateEntry" -> EntryUpdated(s, c, ok)
      [] c.at = "deleteEntryToppings" -> EntryToppingsDeleted(s, c, ok)
      [] c.at = "deleteEntry" -> EntryDeleted(s, c, ok)
      [] c.at = "deleteAllEntryToppings" -> AllEntryToppingsDeleted(s, c, ok)
      [] c.at = "deleteAllEntries" -> AllEntriesDeleted(s, c, ok)

\* the backend runs the write a mutation awaits, or fails, and the response
\* resumes the call
WriteReturns(c, ok) ==
    /\ Becomes(MutationWritten(Store, c, ok))
    /\ UNCHANGED storeFrame

\* the insert into hotdog_entries of addEntry returns
AddEntryInsertReturns ==
    \E c \in inFlight, ok \in BOOLEAN :
        /\ c.at = "insertEntry"
        /\ WriteReturns(c, ok)

\* the insert into entry_toppings of addEntry returns
AddEntryToppingsReturn ==
    \E c \in inFlight, ok \in BOOLEAN :
        /\ c.at = "insertEntryToppings"
        /\ WriteReturns(c, ok)

\* the update of completeEntry / uncompleteEntry returns
UpdateReturns ==
    \E c \in inFlight, ok \in BOOLEAN :
        /\ c.at = "updateEntry"
        /\ WriteReturns(c, ok)

\* Broadcast: the delete of entry_toppings of deleteEntry returns
DeleteToppingsReturns ==
    \E c \in inFlight, ok \in BOOLEAN :
        /\ c.at = "deleteEntryToppings"
        /\ WriteReturns(c, ok)

\* the delete of hotdog_entries of deleteEntry returns
DeleteReturns ==
    \E c \in inFlight, ok \in BOOLEAN :
        /\ c.at = "deleteEntry"
        /\ WriteReturns(c, ok)

\* Broadcast: the delete of all entry_toppings returns
ClearToppingsReturns ==
    \E c \in inFlight, ok \in BOOLEAN :
        /\ c.at = "deleteAllEntryToppings"
        /\ WriteReturns(c, ok)

\* the delete of all hotdog_entries returns
ClearReturns ==
    \E c \in inFlight, ok \in BOOLEAN :
        /\ c.at = "deleteAllEntries"
        /\ WriteReturns(c, ok)

(***************************************************************************)
(* The topping catalog of the backend-backed stores.                       *)
(***************************************************************************)
\* the names and the emoji a custom topping is added with
CustomNames == {"Cheese", "Bacon"}
CustomEmoji == "B"

\* the id the backend gives to the next row of topping_options
NewToppingId(cat) ==
    IF cat = {} THEN 1
    ELSE (CHOOSE t \in cat : \A q \in cat : q.id <= t.id).id + 1

\* the toppings held by the local list toppingOptions.value
Listed(opts) == { opts[i] : i \in 1..Len(opts) }

\* Supabase: maxOrderData ? maxOrderData.display_order + 1 : 1, of the row
\* .order('display_order', { ascending: false }).limit(1).single() returned
SupabaseNextOrder(maxOrderData) ==
    IF maxOrderData = <<>> THEN 1 ELSE maxOrderData[1].display_order + 1

\* Broadcast: Math.max(...toppingOptions.value.map(...)) + 1 on the local
\* list, 0 when it is empty
BroadcastNextOrder(opts) ==
    IF Len(opts) > 0 THEN MaxDisplayOrder(Listed(opts)) + 1 ELSE 0

\* .from('topping_options').insert({ name, emoji, display_order })
InsertTopping(cat, row) == cat \cup {row}

\* addCustomTopping(name, emoji) up to its first await: Supabase selects the
\* greatest display_order; Broadcast computes the order from its local list
\* and sends the insert
AddCustomToppingCalled(s, c, name) ==
    Put([Enter(s) EXCEPT !.outbox = <<>>],
        IF variant = "supabase"
        THEN [Await(c, "selectMaxOrder") EXCEPT !.name = name]
        ELSE [Await(c, "insertTopping") EXCEPT
                 !.name = name, !.order = BroadcastNextOrder(s.toppingOptions)])

\* Supabase: the select of the greatest display_order has returned (an empty
\* table is the error PGRST116, which is let through)
MaxOrderResumed(s, c) ==
    IF c.answered = "error" THEN Catch(s, c)
    ELSE Put(s, [Await(c, "insertTopping") EXCEPT !.order = SupabaseNextOrder(c.snap)])

\* the insert into topping_options has returned.  Supabase reloads the list
\* with initializeStore(); Broadcast pushes the row to its local list and
\* broadcasts the change
ToppingInserted(s, c, ok) ==
    IF ~ok THEN Catch(s, c)
    ELSE LET row == [id |-> NewToppingId(s.dbToppings), name |-> c.name,
                     emoji |-> CustomEmoji, display_order |-> c.order]
             t   == [s EXCEPT !.dbToppings = InsertTopping(@, row),
                              !.lastDone = [op |-> "addCustomTopping", id |-> row.id]]
         IN IF variant = "supabase" THEN InitializeStoreCalled(t, c)
            ELSE BroadcastToppingChangeCalled(
                    [t EXCEPT !.toppingOptions = Append(@, row)], c)

\* addCustomTopping(name, emoji)
AddCustomTopping(by) ==
    \E name \in CustomNames :
        /\ Cardinality(dbToppings)
             + Cardinality({c \in inFlight : c.op = "addCustomTopping"}) < MaxToppings
        /\ MayCall("addCustomTopping", by)
        /\ Becomes(AddCustomToppingCalled(Store, NewCall("addCustomTopping", by), name))
        /\ UNCHANGED storeFrame

MaxOrderResumes ==
    \E c \in inFlight :
        /\ c.at = "selectMaxOrder"
        /\ c.answered # "no"
        /\ Becomes(MaxOrderResumed(Store, c))
        /\ UNCHANGED storeFrame

ToppingInsertReturns ==
    \E c \in inFlight, ok \in BOOLEAN :
        /\ c.at = "insertTopping"
        /\ Becomes(ToppingInserted(Store, c, ok))
        /\ UNCHANGED storeFrame

\* the display_order another client's addCustomTopping can write: a
\* Supabase client takes it from the greatest row its select returned, a
\* Broadcast client from the list it loaded.  Either read the table at the
\* insert or earlier; rows are only ever added to the table, so what the
\* client read is a part of it, and nothing for a client whose select ran on
\* the empty table or which has not loaded its list
RemoteOrders(cat) ==
    UNION { {SupabaseNextOrder(m) : m \in MaxOrderRows(read)}
              \cup {BroadcastNextOrder(opts) : opts \in ByDisplayOrder(read)}
            : read \in SUBSET cat }

\* another client calls addCustomTopping('Relish', 'R') and its insert
\* succeeds
RemoteAddTopping ==
    /\ Cardinality(dbToppings) < MaxToppings
    /\ \E order \in RemoteOrders(dbToppings) :
          dbToppings' = InsertTopping(dbToppings,
                           [id |-> NewToppingId(dbToppings), name |-> "Relish",
                            emoji |-> "R", display_order |-> order])
    /\ lastDone' = NoCall
    /\ UNCHANGED <<variant, dbEntries, dbEntryToppings, nextId, entries,
                   toppingOptions, loading, error, lsV2, lsV1, runs, localVars,
                   rtVars, chanVars,
                   shown, asyncVars, now>>

(***************************************************************************)
(* The views: the computed properties of the three stores, as functions of *)
(* the entry collection they read.                                         *)
(***************************************************************************)
\* no computed property has been read
NothingShown == [of |-> "none"]

\* Supabase: pending entries first, then by created_at
SupabaseAfter(a, b) ==
    IF a.completed # b.completed THEN a.completed
    ELSE a.created_at - b.created_at > 0

\* Broadcast: the comparator of both groups
CreatedAfter(a, b) == a.created_at - b.created_at > 0

\* a comparator that looks at createdAt alone
LaterCreated(a, b) == a.createdAt > b.createdAt

\* a.createdAt.localeCompare(b.createdAt) || a.id.localeCompare(b.id)
LaterThenHigherId(a, b) ==
    \/ a.createdAt > b.createdAt
    \/ a.createdAt = b.createdAt /\ a.id > b.id

\* a comparator that also swaps equal counts
FewerOrSameFirst(a, b) == b.count - a.count >= 0

\* .sort((a, b) => b[1] - a[1])
FewerFirst(a, b) == b.count - a.count > 0

\* the topping names in the order of localeCompare.  The default toppings
\* begin with an emoji (Cheese stands for U+1F9C0 and kana), which sorts before every
\* letter, the emoji among themselves by code point; Bacon and cheese are
\* the names as typed
Collation == <<"Salsa", "Curry", "Honey", "Cheese", "Onion", "Bacon", "cheese">>
RankOf(name) == CHOOSE i \in 1..Len(Collation) : Collation[i] = name

\* a.localeCompare(b) > 0
NameAfter(a, b) == RankOf(a) > RankOf(b)

\* comparator(a, b) > 0 for the comparators the stores pass to sort
After(comparator, a, b) ==
    CASE comparator = "count"      -> FewerFirst(a, b)
      [] comparator = "name"       -> NameAfter(a, b)
      [] comparator = "local"      -> LaterThenHigherId(a, b)
      [] comparator = "supabase"   -> SupabaseAfter(a, b)
      [] comparator = "created_at" -> CreatedAfter(a, b)

RECURSIVE InsertBefore(_, _, _)
\* one step of a stable sort: e goes before the first element that the
\* comparator puts after it
InsertBefore(sorted, e, comparator) ==
    IF sorted = <<>> THEN <<e>>
    ELSE IF After(comparator, Head(sorted), e)
         THEN <<e>> \o sorted
         ELSE <<Head(sorted)>> \o InsertBefore(Tail(sorted), e, comparator)

RECURSIVE StableSort(_, _)
\* Array.prototype.sort(comparator), which is stable
StableSort(list, comparator) ==
    IF list = <<>> THEN <<>>
    ELSE InsertBefore(StableSort(SubSeq(list, 1, Len(list) - 1), comparator),
                      list[Len(list)], comparator)

\* counts.set(key, (counts.get(key) ?? 0) + 1): a table keeps its keys in the
\* order in which they were first set
Bump(table, key) ==
    IF \E i \in 1..Len(table) : table[i].name = key
    THEN [i \in 1..Len(table) |->
            IF table[i].name = key
            THEN [name |-> key, count |-> table[i].count + 1]
            ELSE table[i]]
    ELSE Append(table, [name |-> key, count |-> 1])

RECURSIVE BumpEach(_, _)
\* toppings.forEach((topping) => bump)
BumpEach(table, keys) ==
    IF keys = <<>> THEN table
    ELSE BumpEach(Bump(table, Head(keys)), Tail(keys))

\* ---- local-storage store
sortedEntries == StableSort(lEntries, "local")

RECURSIVE LocalCounts(_, _)
LocalCounts(table, es) ==
    IF es = <<>> THEN table
    ELSE LocalCounts(BumpEach(table, Head(es).toppings), Tail(es))

toppingFrequency == StableSort(LocalCounts(<<>>, lEntries), "count")

\* toppingFrequency.value.slice(0, 3)
TopCount == 3
Slice(list, n) == SubSeq(list, 1, IF Len(list) < n THEN Len(list) ELSE n)

topToppings == Slice(toppingFrequency, TopCount)

\* ---- backend-backed stores
\* `${topping.emoji} ${topping.name}`
KeyOf(topping) == <<topping.emoji, topping.name>>
\* the bucket of entries without toppings
Sentinel == <<"hotdog", "normal">>

KeysOf(toppings) == [i \in 1..Len(toppings) |-> KeyOf(toppings[i])]

RECURSIVE SupabaseCounts(_, _)
\* Supabase, toppingFrequency: an entry without toppings counts in the
\* sentinel bucket
SupabaseCounts(table, es) ==
    IF es = <<>> THEN table
    ELSE SupabaseCounts(
            IF Len(Head(es).toppings) = 0
            THEN Bump(table, Sentinel)
            ELSE BumpEach(table, KeysOf(Head(es).toppings)),
            Tail(es))

RECURSIVE BroadcastCounts(_, _)
\* Broadcast, stats.toppingFrequency: no sentinel bucket
BroadcastCounts(table, es) ==
    IF es = <<>> THEN table
    ELSE BroadcastCounts(BumpEach(table, KeysOf(Head(es).toppings)), Tail(es))

BackendToppingFrequency ==
    IF variant = "supabase"
    THEN StableSort(SupabaseCounts(<<>>, entries), "count")
    ELSE StableSort(BroadcastCounts(<<>>, entries), "count")

\* Broadcast: the completed entries, then the pending ones
BroadcastSortedEntries ==
    StableSort(SelectSeq(entries, LAMBDA e : e.completed), "created_at")
      \o StableSort(SelectSeq(entries, LAMBDA e : ~e.completed), "created_at")

BackendSortedEntries ==
    IF variant = "supabase"
    THEN StableSort(entries, "supabase")
    ELSE BroadcastSortedEntries

\* Array(24).fill(0)
HoursPerDay == 24
\* new Date(created_at).getHours(): timestamps count hours
HourOf(t) == t % HoursPerDay

\* a histogram that puts every entry into bucket 0
CountInFirst(sales, hour) == [sales EXCEPT ![0] = @ + 1]

\* sales[hour]++
CountIn(sales, hour) == [sales EXCEPT ![hour] = @ + 1]

RECURSIVE SalesOf(_, _)
SalesOf(sales, es) ==
    IF es = <<>> THEN sales
    ELSE SalesOf(CountIn(sales, HourOf(Head(es).created_at)), Tail(es))

hourlySales == SalesOf([h \in 0..(HoursPerDay - 1) |-> 0], entries)

\* a component reads the computed properties of the local-storage store
ReadLocalViews ==
    /\ shown' = [of |-> "local", sortedEntries |-> sortedEntries,
                 totalHotdogs |-> totalHotdogs,
                 toppingFrequency |-> toppingFrequency,
                 topToppings |-> topToppings]
    /\ UNCHANGED <<localVars, backendVars, rtVars, chanVars, asyncVars, now>>

\* Supabase: entries.value.length
SupabaseTotalHotdogs == Len(entries)

\* Broadcast: the stats object
stats ==
    LET total     == Len(entries)
        completed == Len(SelectSeq(entries, LAMBDA e : e.completed))
    IN [total |-> total, completed |-> completed, pending |-> total - completed,
        toppingFrequency |-> BackendToppingFrequency]

\* a component reads the computed properties of the backend-backed store
ReadBackendViews ==
    /\ shown' = IF variant = "supabase"
                THEN [of |-> variant, sortedEntries |-> BackendSortedEntries,
                      totalHotdogs |-> SupabaseTotalHotdogs,
                      toppingFrequency |-> BackendToppingFrequency,
                      hourlySales |-> hourlySales]
                ELSE [of |-> variant, sortedEntries |-> BackendSortedEntries,
                      stats |-> stats]
    /\ UNCHANGED <<localVars, backendVars, rtVars, chanVars, asyncVars, now>>

(***************************************************************************)
(* The topping catalog of the local-storage store.                         *)
(***************************************************************************)
\* the names ensureTopping is called with: blank ones, padded ones, one that
\* differs from a default topping by case only
RawNames == {"", " ", "Cheese", " Cheese ", "cheese", "Bacon", " Bacon"}

\* name.trim()
Trim(name) ==
    CASE name = " "        -> ""
      [] name = " Cheese " -> "Cheese"
      [] name = " Bacon"   -> "Bacon"
      [] OTHER             -> name

\* a test that finds no name
IncludesNone(opts, name) == FALSE

\* toppingOptions.value.includes(trimmed)
Includes(opts, name) == \E i \in 1..Len(opts) : opts[i] = name

\* load(), the toppingOptions of the blob: the strings trimmed, the empty
\* ones dropped, what is left made unique by a Set (first occurrences, in
\* order) and sorted; the defaults stay when nothing is left
LoadToppings(stored) ==
    LET cleaned == SelectSeq([i \in 1..Len(stored) |-> Trim(stored[i])],
                             LAMBDA item : item # "")
        unique[i \in 0..Len(cleaned)] ==
            IF i = 0 THEN <<>>
            ELSE IF Includes(unique[i - 1], cleaned[i]) THEN unique[i - 1]
                 ELSE Append(unique[i - 1], cleaned[i])
    IN IF Len(cleaned) > 0 THEN StableSort(unique[Len(cleaned)], "name")
       ELSE defaultToppings

\* the toppingOptions persist() can have written: the defaults of a first
\* session or of clearAllData, or the sorted list that load() and
\* ensureTopping leave, holding the defaults and any of the names
\* ensureTopping adds
StoredCatalogs ==
    LET defaults == {defaultToppings[i] : i \in 1..Len(defaultToppings)}
        added    == {Trim(name) : name \in RawNames} \ ({""} \cup defaults)
    IN {defaultToppings}
         \cup {SelectSeq(Collation, LAMBDA name : name \in defaults \cup extra)
                 : extra \in SUBSET added}

\* ensureTopping(name); the watcher persists when toppingOptions was assigned
LEnsureTopping ==
    \E name \in RawNames :
        LET trimmed == Trim(name)
        IN /\ IF trimmed = "" \/ Includes(lToppingOptions, trimmed)
              THEN UNCHANGED <<lToppingOptions, lStorage>>
              ELSE /\ lToppingOptions' =
                        StableSort(Append(lToppingOptions, trimmed), "name")
                   /\ lStorage' = Persist(lEntries, lToppingOptions')
           /\ lastCall' = [op |-> "ensureTopping", arg |-> name]
           /\ UNCHANGED <<lEntries, lUsedIds, adds, dels, backendVars, rtVars,
                          chanVars,
                   shown, asyncVars, now>>

(***************************************************************************)
(* The realtime subscription.  Broadcast debounces the re-fetch with a     *)
(* timeout of 300 ms; Supabase re-fetches on every row-change event.       *)
(* Time does not pass beyond a due timeout; a notification that arrives    *)
(* when a timeout is due is handled before or after the timeout's callback.*)
(***************************************************************************)
\* setTimeout(..., 300)
DebounceDelay == 300
\* debounceTimer = null
NoTimer == 0

\* the steps in which the realtime clock advances: just less than the
\* debounce delay, the delay, or up to the moment a pending timeout is due
Gaps == {DebounceDelay - 1, DebounceDelay} \cup {t.due - clock : t \in timers}

\* clearTimeout(handle): a handle that is not pending is ignored
ClearTimeout(pending, handle) == {t \in pending : t.id # handle}

\* a notification opens a burst unless it comes less than the debounce
\* delay after the notification before it, or while the timeout armed by
\* that notification has not run: it clears that timeout and shares its fetch
OpensBurst ==
    \/ notified = 0
    \/ /\ clock - lastNote >= DebounceDelay
       /\ \A t \in timers : t.id # debounceTimer

\* debouncedFetchEntries()
DebouncedFetchEntries ==
    /\ timers' = (IF debounceTimer # NoTimer
                  THEN ClearTimeout(timers, debounceTimer) ELSE timers)
                   \cup {[id |-> nextTimer, due |-> clock + DebounceDelay]}
    /\ debounceTimer' = nextTimer
    /\ nextTimer' = nextTimer + 1
    /\ rtFetches' = rtFetches
    /\ Becomes(Store)

\* fetchEntries() called by a callback of the subscription, which does not
\* await it
RealtimeFetch ==
    /\ FreeIds # {}
    /\ rtFetches' = rtFetches + 1
    /\ Becomes(FetchEntriesCalled(Store, NewCall("fetchEntries", "subscription")))

\* subscribeToEntries(), called by onMounted and by whoever imports it: a
\* channel is created and subscribed, whether or not one is subscribed
\* already; Broadcast overwrites realtimeChannel with it
SubscribeToEntries ==
    /\ channels < MaxChannels
    /\ channels' = channels + 1
    /\ realtimeChannel' = "open"
    /\ mountPc' = IF mountPc = "subscribeToEntries"
                  THEN AfterCall("subscribeToEntries") ELSE mountPc
    /\ UNCHANGED <<localVars, backendVars, rtVars, outbox, shown, flightVars, now>>

\* Broadcast, unsubscribeFromEntries(): removeChannel(realtimeChannel),
\* realtimeChannel = null, nothing without a channel; a channel subscribed
\* before the one realtimeChannel holds stays subscribed, and the debounce
\* timer is left as it is
UnsubscribeFromEntries ==
    /\ variant = "broadcast"
    /\ IF realtimeChannel = "open"
       THEN channels' = channels - 1 /\ realtimeChannel' = "null"
       ELSE UNCHANGED <<channels, realtimeChannel>>
    /\ UNCHANGED <<localVars, backendVars, rtVars, outbox, shown, asyncVars, now>>

\* the callback of the subscription: .on('broadcast', { event: 'entry_change' })
\* of Broadcast, .on('postgres_changes', ...) of Supabase, run by a
\* subscribed channel
Notify ==
    /\ channels > 0
    /\ notified < MaxNotifications
    /\ notified' = notified + 1
    /\ lastNote' = clock
    /\ bursts' = IF OpensBurst THEN bursts + 1 ELSE bursts
    /\ IF variant = "broadcast"
       THEN DebouncedFetchEntries
       ELSE RealtimeFetch /\ UNCHANGED <<timers, debounceTimer, nextTimer>>
    /\ UNCHANGED <<variant, localVars, clock, realtimeChannel, channels, shown, now>>

\* Broadcast, the callback .on('broadcast', { event: 'topping_change' }):
\* initializeStore(), not awaited
ToppingNotify ==
    /\ variant = "broadcast"
    /\ channels > 0
    /\ InitializeStore("subscription")

\* the callback of the debounce timeout
TimerFires ==
    \E t \in timers :
        /\ t.due <= clock
        /\ timers' = timers \ {t}
        /\ RealtimeFetch
        /\ UNCHANGED <<variant, localVars, clock, debounceTimer, nextTimer,
                       notified, lastNote, bursts, realtimeChannel, channels, shown, now>>

\* the realtime clock advances, up to the next due timeout
Advance ==
    \E g \in Gaps :
        /\ g > 0
        /\ clock + g <= MaxClock
        /\ \A t \in timers : clock + g <= t.due
        /\ clock' = clock + g
        /\ UNCHANGED <<localVars, backendVars, timers, debounceTimer, nextTimer,
                       notified, lastNote, bursts, rtFetches, chanVars,
                   shown, asyncVars, now>>

(***************************************************************************)
(* migrateFromLocalStorage()                                               *)
(***************************************************************************)
BlobOf(key) == IF key = "v2" THEN lsV2 ELSE IF key = "v1" THEN lsV1 ELSE NoBlob

\* what a run has done so far: the blobs it found, the one it picked with
\* its shape and records, the records of the blob it did not pick, whether
\* the variant could read it, the catalog as it was at the call, the insert
\* attempts, whether an insert failed, whether the pass stopped on a throw,
\* the keys it removed, and whether it has returned
RunSummary(key, blob, recs, by) ==
    [v2 |-> Present(lsV2), v1 |-> Present(lsV1), picked |-> key,
     shape |-> blob.shape, records |-> blob.records, looped |-> recs,
     unpicked |-> IF key = "v2" THEN lsV1.records ELSE <<>>,
     readable |-> key # "none" /\ Iterable(variant, key, blob),
     opts |-> toppingOptions,
     attempts |-> <<>>,
     failed |-> FALSE,
     mounting |-> by = "onMounted",
     stopped |-> FALSE,
     removed |-> {},
     done |-> FALSE]

\* option?.id of each topping found
IdsOf(tops) == [i \in 1..Len(tops) |-> tops[i].id]

RECURSIVE DropUnmatched(_, _)
\* Broadcast, for (const toppingName of entry.toppings): the names from the
\* first one that the list holds
DropUnmatched(names, opts) ==
    IF names = <<>> THEN <<>>
    ELSE IF FindByName(opts, Head(names)) = <<>>
         THEN DropUnmatched(Tail(names), opts)
         ELSE names

\* Broadcast: migrateV2Data / migrateV1Data has returned, and it always
\* returns: the key of the blob is removed
DataMigrated(s, c) ==
    LET key == s.runs[c.run].picked
    IN Return([s EXCEPT !.lsV2 = IF key = "v2" THEN NoBlob ELSE @,
                        !.lsV1 = IF key = "v1" THEN NoBlob ELSE @,
                        !.runs[c.run].removed = {key}], c)

\* Supabase: an error is thrown in the try block of the run
MigrationThrown(s, c) == Catch([s EXCEPT !.runs[c.run].stopped = TRUE], c)

\* the loop has run over every record.  Supabase removes both keys and calls
\* fetchEntries(); migrateV2Data / migrateV1Data of Broadcast returns
LoopDone(s, c) ==
    IF variant = "supabase"
    THEN FetchEntriesCalled(
            [s EXCEPT !.lsV2 = NoBlob, !.lsV1 = NoBlob,
                      !.runs[c.run].removed =
                          {key \in {"v2", "v1"} :
                              Present(IF key = "v2" THEN s.lsV2 ELSE s.lsV1)}], c)
    ELSE DataMigrated(s, c)

\* for (const entry of records): the next record, up to the await of its
\* insert.  Supabase resolves the topping names of the record first.
NextRecord(s, c) ==
    LET recs == s.runs[c.run].looped
        k    == c.k + 1
    IN IF k > Len(recs) THEN LoopDone(s, c)
       ELSE Put(s, [Await(c, "migrateEntry") EXCEPT
                       !.k = k,
                       !.ids = IF variant = "supabase"
                               THEN IdsOf(ResolveToppings(recs[k].toppings,
                                                          s.toppingOptions))
                               ELSE <<>>])

\* Broadcast: the next topping name the list holds, up to the await of its
\* insert; the next record when there is none
NextTopping(s, c) ==
    LET rest == DropUnmatched(c.names, s.toppingOptions)
    IN IF rest = <<>> THEN NextRecord(s, c)
       ELSE Put(s, [Await(c, "migrateEntryTopping") EXCEPT
                       !.names = rest,
                       !.ids = IdsOf(FindByName(s.toppingOptions, Head(rest)))])

\* migrateFromLocalStorage() up to its first await.  Without a blob it
\* returns at once.  Supabase sets loading and error, and throws when it
\* cannot parse or iterate the blob; migrateV2Data / migrateV1Data of
\* Broadcast catches that and returns.
MigrateFromLocalStorageCalled(s, c) ==
    LET key  == PickedKey(s.lsV2, s.lsV1)
        blob == BlobOf(key)
        recs == IF key = "none" THEN <<>> ELSE LoopRecords(variant, key, blob)
        t    == [s EXCEPT !.runs = Append(@, RunSummary(key, blob, recs, c.by))]
        d    == [c EXCEPT !.run = Len(s.runs) + 1]
    IN IF key = "none" THEN Return(t, d)
       ELSE IF variant = "supabase"
       THEN IF Iterable(variant, key, blob)
            THEN NextRecord(Enter(t), d)
            ELSE MigrationThrown(Enter(t), d)
       ELSE IF Iterable(variant, key, blob)
            THEN NextRecord(t, d)
            ELSE DataMigrated([t EXCEPT !.runs[d.run].stopped = TRUE], d)

\* the insert of the entry of a record has returned.  Supabase throws its
\* error; Broadcast logs it and continues with the next record
EntryMigrated(s, c, ok) ==
    LET rec == s.runs[c.run].looped[c.k]
    IN IF ~ok
       THEN LET t == [s EXCEPT !.runs[c.run].failed = TRUE,
                               !.runs[c.run].attempts =
                                   Append(@, [idx |-> c.k, entryOk |-> FALSE, id |-> 0])]
            IN IF variant = "supabase" THEN MigrationThrown(t, c)
               ELSE NextRecord(t, c)
       ELSE LET t == [s EXCEPT !.dbEntries = @ \cup {RowOf(rec, s.nextId)},
                               !.nextId = @ + 1,
                               !.covered = FALSE,
                               !.runs[c.run].attempts =
                                   Append(@, [idx |-> c.k, entryOk |-> TRUE,
                                              id |-> s.nextId])]
                d == [c EXCEPT !.entryId = s.nextId, !.names = rec.toppings]
            IN IF variant = "broadcast" THEN NextTopping(t, d)
               ELSE IF c.ids = <<>> THEN NextRecord(t, d)
               ELSE Put(t, Await(d, "migrateEntryToppings"))

\* Supabase: the insert of the entry_toppings rows of a record has returned
EntryToppingsMigrated(s, c, ok) ==
    IF ~ok THEN MigrationThrown([s EXCEPT !.runs[c.run].failed = TRUE], c)
    ELSE NextRecord([s EXCEPT !.dbEntryToppings =
                                  @ \o EntryToppingRows(c.entryId, c.ids)], c)

\* Broadcast: the insert of one entry_toppings row has returned; its result
\* is not looked at
EntryToppingMigrated(s, c, ok) ==
    NextTopping(IF ok
                THEN [s EXCEPT !.dbEntryToppings =
                                   @ \o EntryToppingRows(c.entryId, c.ids)]
                ELSE [s EXCEPT !.runs[c.run].failed = TRUE],
                [c EXCEPT !.names = Tail(c.names)])

\* migrateFromLocalStorage()
MigrateFromLocalStorage(by) ==
    /\ Len(runs) < MaxRuns
    /\ MayCall("migrateFromLocalStorage", by)
    /\ Becomes(MigrateFromLocalStorageCalled(Store, NewCall("migrateFromLocalStorage", by)))
    /\ UNCHANGED storeFrame

MigrateEntryReturns ==
    \E c \in inFlight, ok \in BOOLEAN :
        /\ c.at = "migrateEntry"
        /\ Becomes(EntryMigrated(Store, c, ok))
        /\ UNCHANGED storeFrame

MigrateEntryToppingsReturn ==
    \E c \in inFlight, ok \in BOOLEAN :
        /\ c.at = "migrateEntryToppings"
        /\ Becomes(EntryToppingsMigrated(Store, c, ok))
        /\ UNCHANGED storeFrame

MigrateEntryToppingReturns ==
    \E c \in inFlight, ok \in BOOLEAN :
        /\ c.at = "migrateEntryTopping"
        /\ Becomes(EntryToppingMigrated(Store, c, ok))
        /\ UNCHANGED storeFrame
(***************************************************************************)
(* Specifications.                                                         *)
(***************************************************************************)
InitLocalStore ==
    /\ lEntries = <<>>
    /\ lToppingOptions = defaultToppings
    /\ lStorage = NoBlob
    /\ lUsedIds = {}
    /\ adds = 0
    /\ dels = 0
    /\ lastCall = [op |-> "none", arg |-> 0]

\* useHotdogStore() on a launch that finds a blob: load() takes entries and
\* toppingOptions from it; the watcher is registered after load(), so the
\* blob stays as the earlier session left it
InitLoadedStore ==
    \E stored \in StoredCatalogs :
        /\ lStorage = Payload(lEntries, stored)
        /\ lToppingOptions = LoadToppings(stored)

InitBackend ==
    /\ dbEntries = {}
    /\ dbEntryToppings = <<>>
    /\ dbToppings = SeedCatalog
    /\ nextId = 1
    /\ entries = <<>>
    /\ toppingOptions = <<>>
    /\ loading = FALSE
    /\ error = NoError
    /\ runs = <<>>
    /\ lastDone = NoCall

InitRealtime ==
    /\ clock = 0
    /\ timers = {}
    /\ debounceTimer = NoTimer
    /\ nextTimer = 1
    /\ notified = 0
    /\ lastNote = 0
    /\ bursts = 0
    /\ rtFetches = 0

InitIdle ==
    /\ now = StartTime
    /\ InitRealtime
    /\ shown = NothingShown
    /\ realtimeChannel = "null"
    /\ channels = 0
    /\ outbox = <<>>
    /\ inFlight = {}
    /\ covered = TRUE

\* the application has started: onMounted has run to its end
InitShared ==
    /\ InitIdle
    /\ mountPc = "done"

\* no call is in flight: the components call the store one operation at a
\* time, each after the one before it has returned
Idle == inFlight = {}

\* the steps in which a call of fetchEntries goes on
FetchSteps ==
    \/ SelectAnswered
    \/ FetchEntriesResumes
    \/ EntryToppingsResumes

\* the steps in which a call of initializeStore or fetchEntries goes on
ReadSteps ==
    \/ InitializeStoreResumes
    \/ FetchSteps

\* the steps in which a mutation of the entries goes on to its fetchEntries
WriteSteps ==
    \/ AddEntryInsertReturns
    \/ AddEntryToppingsReturn
    \/ UpdateReturns
    \/ DeleteToppingsReturns
    \/ DeleteReturns
    \/ ClearToppingsReturns
    \/ ClearReturns

\* the backend-backed stores in use, no legacy blob left
Init ==
    /\ InitLocalStore /\ InitBackend /\ InitShared
    /\ variant \in Variants
    /\ lsV2 = NoBlob
    /\ lsV1 = NoBlob

Next ==
    \/ Idle /\ FetchEntries("component")
    \/ Idle /\ AddEntry("component")
    \/ Idle /\ CompleteEntry("component")
    \/ Idle /\ UncompleteEntry("component")
    \/ Idle /\ DeleteEntry("component")
    \/ Idle /\ ClearAll("component")
    \/ FetchSteps
    \/ WriteSteps
    \/ Tick

Spec == Init /\ [][Next]_vars

\* start-up of the backend-backed stores (App.vue, onMounted) with whatever
\* the legacy stores left in localStorage
InitMigration ==
    /\ InitLocalStore /\ InitBackend /\ InitShared
    /\ variant \in Variants
    /\ \E st \in Storages : lsV2 = st.v2 /\ lsV1 = st.v1

\* the steps in which a migration run goes on
MigrationSteps ==
    \/ MigrateEntryReturns
    \/ MigrateEntryToppingsReturn
    \/ MigrateEntryToppingReturns

NextMigration ==
    \/ Idle /\ InitializeStore("component")
    \/ Idle /\ MigrateFromLocalStorage("component")
    \/ ReadSteps
    \/ MigrationSteps

SpecMigration == InitMigration /\ [][NextMigration]_vars

\* the application starts: onMounted of App.vue, statement by statement
InitStartup ==
    /\ InitLocalStore /\ InitBackend /\ InitIdle
    /\ mountPc = "initializeStore"
    /\ variant \in Variants
    /\ \E st \in Storages : lsV2 = st.v2 /\ lsV1 = st.v1

OnMounted ==
    \/ InitializeStore("onMounted")
    \/ MigrateFromLocalStorage("onMounted")
    \/ FetchEntries("onMounted")
    \/ mountPc = "subscribeToEntries" /\ SubscribeToEntries
    \/ ReadSteps
    \/ MigrationSteps

SpecStartup == InitStartup /\ [][OnMounted]_vars

\* the local-storage store at launch: the first one, or one that finds the
\* blob of a session that ended with no entry
InitLocal ==
    /\ lEntries = <<>>
    /\ lUsedIds = {}
    /\ adds = 0
    /\ dels = 0
    /\ lastCall = [op |-> "none", arg |-> 0]
    /\ \/ lToppingOptions = defaultToppings /\ lStorage = NoBlob
       \/ InitLoadedStore
    /\ InitBackend /\ InitShared
    /\ variant = "supabase"
    /\ lsV2 = NoBlob
    /\ lsV1 = NoBlob

NextLocal ==
    \/ LAddEntry
    \/ LDeleteEntry
    \/ LClearAllData
    \/ LEnsureTopping
    \/ Tick

SpecLocal == InitLocal /\ [][NextLocal]_vars

\* the subscription of a running store receiving change notifications; the
\* calls its callbacks make are not awaited and overlap
NextRealtime ==
    \/ SubscribeToEntries
    \/ UnsubscribeFromEntries
    \/ Notify
    \/ ToppingNotify
    \/ TimerFires
    \/ Advance
    \/ SelectAnswered
    \/ InitializeStoreResumes
    \/ FetchEntriesResumes

SpecRealtime == Init /\ [][NextRealtime]_vars

\* the Broadcast store: its mutations, with and without a channel
InitBroadcast ==
    /\ InitLocalStore /\ InitBackend /\ InitShared
    /\ variant = "broadcast"
    /\ lsV2 = NoBlob
    /\ lsV1 = NoBlob

NextBroadcast ==
    \/ SubscribeToEntries
    \/ UnsubscribeFromEntries
    \/ Idle /\ AddEntry("component")
    \/ Idle /\ CompleteEntry("component")
    \/ Idle /\ UncompleteEntry("component")
    \/ Idle /\ DeleteEntry("component")
    \/ Idle /\ ClearAll("component")
    \/ SelectAnswered
    \/ FetchEntriesResumes
    \/ WriteSteps
    \/ BroadcastSent

SpecBroadcast == InitBroadcast /\ [][NextBroadcast]_vars

\* the catalog operations, with the backend catalog seeded or empty
InitCatalog ==
    /\ InitLocalStore /\ InitShared
    /\ variant \in Variants
    /\ dbEntries = {}
    /\ dbEntryToppings = <<>>
    /\ dbToppings \in {{}, SeedCatalog}
    /\ nextId = 1
    /\ entries = <<>>
    /\ toppingOptions = <<>>
    /\ loading = FALSE
    /\ error = NoError
    /\ runs = <<>>
    /\ lastDone = NoCall
    /\ lsV2 = NoBlob
    /\ lsV1 = NoBlob

NextCatalog ==
    \/ Idle /\ InitializeStore("component")
    \/ Idle /\ AddCustomTopping("component")
    \/ RemoteAddTopping
    \/ SelectAnswered
    \/ InitializeStoreResumes
    \/ MaxOrderResumes
    \/ ToppingInsertReturns

SpecCatalog == InitCatalog /\ [][NextCatalog]_vars

(***************************************************************************)
(* The views over every small collection a store can hold.                 *)
(***************************************************************************)
\* creation times: two hours of one day and the first of them a day later
ViewTimes == {1, 2, HoursPerDay + 1}

\* topping lists of stored local entries; the store keeps what it was given
ViewToppingLists ==
    (LocalSelections \ {<<>>})
      \cup {<<"Onion">>, <<"Salsa", "Cheese", "Curry", "Onion">>}

\* what entries.value of the local-storage store can hold after addEntry,
\* deleteEntry and load()
LocalCollections ==
    UNION { { es \in [1..n -> [id : 1..MaxViewEntries, createdAt : ViewTimes,
                               toppings : ViewToppingLists]] :
                \A i, j \in 1..n : i # j => es[i].id # es[j].id }
            : n \in 0..MaxViewEntries }

\* the topping ids of stored backend entries
ViewSelections == Selections \cup {<<2>>}

RECURSIVE ToppingRowsUpTo(_, _)
\* the entry_toppings rows of entries 1..n
ToppingRowsUpTo(tops, n) ==
    IF n = 0 THEN <<>>
    ELSE ToppingRowsUpTo(tops, n - 1)
           \o [i \in 1..Len(tops[n]) |-> [entry_id |-> n, topping_id |-> tops[n][i]]]

\* the local-storage store holding a collection: in its first session, the
\* entries added and persisted, or after load() of the blob an earlier session
\* left (adds counts the calls that created the entries held)
InitLocalViews ==
    /\ lEntries \in LocalCollections
    /\ \/ /\ lToppingOptions = defaultToppings
          /\ lStorage = IF lEntries = <<>> THEN NoBlob
                        ELSE Persist(lEntries, lToppingOptions)
       \/ InitLoadedStore
    /\ lUsedIds = {lEntries[i].id : i \in 1..Len(lEntries)}
    /\ adds = Len(lEntries)
    /\ dels = 0
    /\ lastCall = [op |-> "none", arg |-> 0]
    /\ InitBackend
    /\ variant = "supabase"

InitBackendViews ==
    /\ InitLocalStore
    /\ variant \in Variants
    /\ \E n \in 0..MaxViewEntries :
         \E at \in [1..n -> ViewTimes], done \in [1..n -> BOOLEAN],
            tops \in [1..n -> ViewSelections] :
            /\ dbEntries = { EntryRow(i, at[i], done[i],
                                      IF done[i] THEN at[i] ELSE NullTime)
                             : i \in 1..n }
            /\ dbEntryToppings = ToppingRowsUpTo(tops, n)
            /\ nextId = n + 1
    /\ dbToppings = SeedCatalog
    /\ entries \in FetchResults(variant, dbEntries, dbEntryToppings, dbToppings)
    /\ toppingOptions = <<>>
    /\ loading = FALSE
    /\ error = NoError
    /\ runs = <<>>
    /\ lastDone = NoCall

InitViews ==
    /\ InitShared
    /\ lsV2 = NoBlob
    /\ lsV1 = NoBlob
    /\ InitLocalViews \/ InitBackendViews

NextViews ==
    \/ ReadLocalViews
    \/ ReadBackendViews

SpecViews == InitViews /\ [][NextViews]_vars

(***************************************************************************)
(* Overlapping calls.  A call of fetchEntries made by the notification     *)
(* responder (Supabase: the postgres_changes callback, Broadcast: the      *)
(* debounce timeout) can be in flight during an addEntry and during        *)
(* another fetchEntries, and the responses of the backend arrive in any    *)
(* order.                                                                  *)
(***************************************************************************)
\* the application after start-up, its channel subscribed: initializeStore
\* loaded the catalog, or failed and left toppingOptions empty, and the
\* fetchEntries after it cleared the error and found no entry
InitAsync ==
    /\ InitLocalStore
    /\ dbEntries = {}
    /\ dbEntryToppings = <<>>
    /\ dbToppings = SeedCatalog
    /\ nextId = 1
    /\ entries = <<>>
    /\ toppingOptions \in ByDisplayOrder(dbToppings) \cup {<<>>}
    /\ loading = FALSE
    /\ error = NoError
    /\ runs = <<>>
    /\ lastDone = NoCall
    /\ now = StartTime
    /\ InitRealtime
    /\ shown = NothingShown
    /\ realtimeChannel = "open"
    /\ channels = 1
    /\ outbox = <<>>
    /\ inFlight = {}
    /\ covered = TRUE
    /\ mountPc = "done"
    /\ variant \in Variants
    /\ lsV2 = NoBlob
    /\ lsV1 = NoBlob

NextAsync ==
    \/ FetchEntries("subscription")
    \/ AddEntry("component")
    \/ SelectAnswered
    \/ FetchEntriesResumes
    \/ EntryToppingsResumes
    \/ AddEntryInsertReturns
    \/ AddEntryToppingsReturn
    \/ BroadcastSent

SpecAsync == InitAsync /\ [][NextAsync]_vars

(***************************************************************************)
(* Properties.                                                             *)
(***************************************************************************)
\* the last migration run, in a state that has one
LastRun == runs[Len(runs)]

\* the hotdog_entries row a successful insert attempt created
RowOfAttempt(a) == CHOOSE row \in dbEntries : row.id = a.id

\* the topping ids entry_toppings holds for an entry, in row order
ToppingIdsOf(entryId) ==
    LET mine == SelectSeq(dbEntryToppings, LAMBDA et : et.entry_id = entryId)
    IN [i \in 1..Len(mine) |-> mine[i].topping_id]

\* the names of a legacy record that equal the name of a catalog topping
MatchedNames(names, opts) ==
    SelectSeq(names, LAMBDA n : \E i \in 1..Len(opts) : opts[i].name = n)

\* the step is a call of migrateFromLocalStorage
MigrationStep == Len(runs') = Len(runs) + 1

\* the call returns in the step
Gone(c) == \A d \in inFlight' : d.id # c.id

\* the step is the response of a failed write to a mutation
FailedWrite(c) == c.at \in MutationWrites /\ WriteReturns(c, FALSE)

\* the step is the response of a successful write to a mutation
CommittedWrite(c) == c.at \in MutationWrites /\ WriteReturns(c, TRUE)

\* C1: in the local-storage store, at every point of a sequence of addEntry
\* and deleteEntry calls, totalHotdogs is the number of addEntry calls that
\* created an entry minus the number of deleteEntry calls whose id was present.
TotalIsAddsMinusDeletes == totalHotdogs = adds - dels

\* C1 happens: entries were added and deleteEntry, the last call, has removed
\* one of them
TotalIsAddsMinusDeletesSeen ==
    /\ adds >= 2
    /\ dels >= 1
    /\ Len(lEntries) >= 1
    /\ lastCall.op = "deleteEntry"

\* C2: in the backend-backed store every row of hotdog_entries has a
\* completed_at if and only if its completed is true, migration of arbitrary
\* legacy records included.
CompletedAtIffCompleted ==
    \A row \in dbEntries : (row.completed_at # NullTime) <=> row.completed

\* C3: in the local-storage store addEntry with an empty topping list is a
\* no-op: the entry collection, totalHotdogs and the topping catalog are
\* unchanged.
EmptyAddEntryIsNoOp ==
    [][(lastCall'.op = "addEntry" /\ Len(lastCall'.arg) = 0)
        => /\ lEntries' = lEntries
           /\ totalHotdogs' = totalHotdogs
           /\ lToppingOptions' = lToppingOptions]_vars

\* C3 happens: addEntry([]) was the last call, on a store that holds entries
EmptyAddEntrySeen ==
    /\ lastCall.op = "addEntry"
    /\ lastCall.arg = <<>>
    /\ Len(lEntries) >= 1

\* C4: in the backend-backed variants addEntry with an empty list of topping
\* ids is a no-op: no row is inserted into hotdog_entries, the table is as the
\* call found it.
BackendEmptyAddEntryIsNoOp ==
    [][\A c \in inFlight :
          (c.op = "addEntry" /\ c.ids = <<>> /\ c.at = "insertEntry")
             => dbEntries' = c.was.rows]_vars

\* C5: migration is idempotent: a run that follows a run that succeeded and
\* cleared the legacy blob inserts no entries; and a run that finds no legacy
\* blob inserts nothing and leaves entries, catalog and storage unchanged.
MigrationIdempotent ==
    [][/\ \A k \in DOMAIN runs' :
             (k > 1 /\ runs'[k - 1].done /\ ~runs'[k - 1].stopped
                 /\ ~runs'[k - 1].failed /\ runs'[k - 1].removed # {})
               => \A j \in 1..Len(runs'[k].attempts) : ~runs'[k].attempts[j].entryOk
       /\ (MigrationStep /\ ~Present(lsV2) /\ ~Present(lsV1))
            => /\ UNCHANGED <<dbEntries, dbEntryToppings, dbToppings, entries,
                              toppingOptions, lsV2, lsV1>>
               /\ runs'[Len(runs')].done]_vars

\* C6: the legacy blob is deleted only after a full pass over its records:
\* no run whose pass stopped (parse failure or thrown error) removes the blob.
BlobDeletedOnlyAfterFullPass ==
    \A k \in DOMAIN runs : runs[k].stopped => runs[k].picked \notin runs[k].removed

\* C7: a failed insert of one legacy record is not fatal to the batch: every
\* record of a blob the run could read is attempted, and the records whose
\* insert succeeded are in the backend.
FailedInsertNotFatal ==
    \A k \in DOMAIN runs :
        (runs[k].done /\ runs[k].readable) =>
            /\ \A i \in 1..Len(runs[k].looped) :
                  \E j \in 1..Len(runs[k].attempts) : runs[k].attempts[j].idx = i
            /\ \A j \in 1..Len(runs[k].attempts) :
                  runs[k].attempts[j].entryOk =>
                      \E row \in dbEntries : row.id = runs[k].attempts[j].id

\* C8: a migration run in which every insert succeeds creates exactly one
\* entry per legacy record, with the record's createdAt as created_at and with
\* exactly the toppings whose name equals a name of the loaded catalog;
\* migration leaves the topping catalog unchanged.
MigrationCreatesOneEntryPerRecord ==
    /\ dbToppings = SeedCatalog
    /\ \A k \in DOMAIN runs :
          LET run == runs[k]
          IN (run.done /\ run.readable /\ ~run.failed) =>
                /\ Len(run.attempts) = Len(run.records)
                /\ \A i, j \in 1..Len(run.attempts) :
                      run.attempts[i].id = run.attempts[j].id => i = j
                /\ \A i \in 1..Len(run.attempts) :
                      LET a     == run.attempts[i]
                          rec   == run.records[i]
                          names == MatchedNames(rec.toppings, run.opts)
                          ids   == ToppingIdsOf(a.id)
                      IN /\ a.idx = i
                         /\ a.entryOk
                         /\ Cardinality({row \in dbEntries : row.id = a.id}) = 1
                         /\ RowOfAttempt(a).created_at = rec.createdAt
                         /\ Len(ids) = Len(names)
                         /\ \A n \in 1..Len(ids) :
                               \E t \in dbToppings : t.id = ids[n] /\ t.name = names[n]
    /\ Cardinality(dbEntries) =
          Cardinality({<<k, j>> \in (DOMAIN runs) \X (1..MaxRecords + 1) :
                          j <= Len(runs[k].attempts) /\ runs[k].attempts[j].entryOk})

\* C8 happens: a run with no failed insert migrated a record that names a
\* catalog topping and a name the catalog does not have
MigrationCreatesOneEntryPerRecordSeen ==
    \E k \in DOMAIN runs :
        /\ runs[k].done /\ runs[k].readable /\ ~runs[k].failed
        /\ \E i \in 1..Len(runs[k].records) :
              /\ runs[k].records[i].toppings = <<"Ghost", "Onion">>
              /\ Len(runs[k].opts) = 2
              /\ ToppingIdsOf(runs[k].attempts[i].id) = <<2>>

\* C9: every entry migrated from the v1 blob is stored with completed = true
\* and completed_at equal to its created_at, in both variants.
V1MigratedAsCompleted ==
    \A k \in DOMAIN runs :
        runs[k].picked = "v1" =>
            \A j \in 1..Len(runs[k].attempts) :
                runs[k].attempts[j].entryOk =>
                    /\ RowOfAttempt(runs[k].attempts[j]).completed
                    /\ RowOfAttempt(runs[k].attempts[j]).completed_at
                         = RowOfAttempt(runs[k].attempts[j]).created_at

\* C10: when both legacy blobs are present a run checks v2 first and migrates
\* only the v2 records: every row the run inserts is the row of a v2 record,
\* no more rows are inserted than v2 has records.
V2CheckedFirst ==
    [][/\ (MigrationStep /\ Present(lsV2) /\ Present(lsV1)) =>
             /\ runs'[Len(runs')].picked = "v2"
             /\ runs'[Len(runs')].records = lsV2.records
       /\ \A k \in DOMAIN runs' :
             LET run == runs'[k]
             IN (run.v2 /\ run.v1) =>
                   /\ Len(SelectSeq(run.attempts, LAMBDA a : a.entryOk))
                        <= Len(run.records)
                   /\ \A j \in 1..Len(run.attempts) :
                         run.attempts[j].entryOk =>
                             \E row \in dbEntries' :
                                 /\ row.id = run.attempts[j].id
                                 /\ row = RowOf(run.records[run.attempts[j].idx],
                                                row.id)]_vars

\* C10 happens: a run found both blobs, each with a record, and inserted an
\* entry
V2CheckedFirstSeen ==
    /\ Len(runs) = 1
    /\ runs[1].done
    /\ runs[1].v2 /\ runs[1].v1
    /\ Len(runs[1].records) = 1
    /\ runs[1].attempts # <<>>
    /\ runs[1].attempts[1].entryOk
    /\ variant = "broadcast"
    /\ Len(lsV1.records) = 1

\* C11: in each realtime variant a burst of notifications, each less than
\* 300 ms after the one before, triggers exactly one fetchEntries call, after
\* the last notification of the burst; at most one timer is pending.
BurstTriggersOneFetch ==
    /\ Cardinality(timers) <= 1
    /\ rtFetches <= bursts
    /\ (timers = {} => rtFetches = bursts)

\* C12: when the backend write of addEntry, deleteEntry, completeEntry,
\* uncompleteEntry or clearAll fails, entries.value is as it was before the
\* call, error.value is non-null and loading.value is false on return.
FailedWriteKeepsEntries ==
    [][\A c \in inFlight :
          FailedWrite(c) =>
             /\ Gone(c)
             /\ entries' = c.was.entries
             /\ error' # NoError
             /\ loading' = FALSE]_vars

\* C12 happens: the write of a Broadcast delete failed after the toppings of
\* an entry were deleted; entries.value still shows the entry with toppings
FailedWriteSeen ==
    /\ variant = "broadcast"
    /\ inFlight = {}
    /\ ~loading
    /\ error = ErrorMessage
    /\ \E i \in 1..Len(entries) :
          /\ Len(entries[i].toppings) > 0
          /\ \E r \in dbEntries : r.id = entries[i].id
          /\ \A k \in 1..Len(dbEntryToppings) :
                dbEntryToppings[k].entry_id # entries[i].id

\* C13: addEntry, deleteEntry and clearAll are all-or-nothing on the backend:
\* when a backend call inside them fails, hotdog_entries and entry_toppings
\* are the same as before the operation.
FailedMutationLeavesBackend ==
    [][\A c \in inFlight :
          (c.op \in {"addEntry", "deleteEntry", "clearAll"} /\ FailedWrite(c)) =>
             /\ dbEntries' = c.was.rows
             /\ dbEntryToppings' = c.was.ets]_vars

\* C18: completeEntry(id) followed by uncompleteEntry(id), both succeeding,
\* leaves the entry with completed = false and completed_at = null and every
\* other field and entry as it was; for an id no entry has, neither call
\* changes an entry.
CompleteThenUncompleteRestores ==
    [][LET id           == lastDone'.id
           Others(rows) == {r \in rows : r.id # id}
           Kept(rows)   == {[id |-> r.id, created_at |-> r.created_at] : r \in rows}
       IN /\ lastDone'.op \in {"complete", "uncomplete", "pair"} =>
               /\ Others(dbEntries') = Others(dbEntries)
               /\ Kept(dbEntries') = Kept(dbEntries)
               /\ Cardinality(dbEntries') = Cardinality(dbEntries)
               /\ dbEntryToppings' = dbEntryToppings
               /\ (\A r \in dbEntries : r.id # id) => dbEntries' = dbEntries
          /\ lastDone'.op \in {"uncomplete", "pair"} =>
               \A r \in dbEntries' :
                   r.id = id => ~r.completed /\ r.completed_at = NullTime]_vars

\* C18 happens: completeEntry(id) and then uncompleteEntry(id) succeeded on
\* an entry, with another entry in the table that is completed
CompleteThenUncompleteSeen ==
    /\ lastDone.op = "pair"
    /\ \E r \in dbEntries : r.id = lastDone.id /\ ~r.completed
    /\ \E r \in dbEntries : r.id # lastDone.id /\ r.completed


\* the topping names the entries of the local store list
ListedNames == UNION { { lEntries[j].toppings[k] : k \in 1..Len(lEntries[j].toppings) }
                       : j \in 1..Len(lEntries) }

\* the entries of the local store that list a topping
EntriesListing(name) ==
    { j \in 1..Len(lEntries) :
        \E k \in 1..Len(lEntries[j].toppings) : lEntries[j].toppings[k] = name }

\* C14: the count toppingFrequency reports for a topping is the number of
\* entries that contain it, an entry counting once also when it lists the
\* topping twice, and the toppings reported are the ones some entry lists.
FrequencyCountsEntries ==
    /\ { toppingFrequency[i].name : i \in 1..Len(toppingFrequency) } = ListedNames
    /\ \A i \in 1..Len(toppingFrequency) :
         toppingFrequency[i].count
           = Cardinality(EntriesListing(toppingFrequency[i].name))


RECURSIVE SumOfCounts(_)
\* the sum of the counts of a frequency table
SumOfCounts(table) ==
    IF table = <<>> THEN 0 ELSE Head(table).count + SumOfCounts(Tail(table))

RECURSIVE PairsOf(_)
\* the number of (entry, topping) pairs of a backend entry collection
PairsOf(es) ==
    IF es = <<>> THEN 0 ELSE Len(Head(es).toppings) + PairsOf(Tail(es))

\* the entries of the backend-backed store without toppings
PlainEntries == { j \in 1..Len(entries) : Len(entries[j].toppings) = 0 }

\* C15: in both backend-backed variants every entry without toppings counts
\* once in the sentinel bucket, so the counts of the frequency table sum to
\* the number of (entry, topping) pairs plus the number of such entries.
FrequencySumsToPairsPlusPlain ==
    /\ SumOfCounts(BackendToppingFrequency)
         = PairsOf(entries) + Cardinality(PlainEntries)
    /\ PlainEntries # {} =>
         \E i \in 1..Len(BackendToppingFrequency) :
            /\ BackendToppingFrequency[i].name = Sentinel
            /\ BackendToppingFrequency[i].count = Cardinality(PlainEntries)


RECURSIVE LocalScan(_)
\* the topping names in the order in which a scan of local entries meets them
LocalScan(es) ==
    IF es = <<>> THEN <<>> ELSE Head(es).toppings \o LocalScan(Tail(es))

RECURSIVE SupabaseScan(_)
\* the keys in the order in which a scan of Supabase entries meets them
SupabaseScan(es) ==
    IF es = <<>> THEN <<>>
    ELSE (IF Len(Head(es).toppings) = 0 THEN <<Sentinel>>
          ELSE KeysOf(Head(es).toppings)) \o SupabaseScan(Tail(es))

\* the position at which a scan meets a key for the first time
FirstMet(key, scan) ==
    CHOOSE i \in 1..Len(scan) : scan[i] = key /\ \A j \in 1..(i - 1) : scan[j] # key

\* a table lists each key of the scan once, by count descending, equal counts
\* in the order of first encounter
OrderedByCountThenEncounter(table, scan) ==
    /\ { table[i].name : i \in 1..Len(table) } = { scan[k] : k \in 1..Len(scan) }
    /\ \A i, j \in 1..Len(table) :
         i < j =>
            /\ table[i].name # table[j].name
            /\ table[i].count >= table[j].count
            /\ table[i].count = table[j].count =>
                 FirstMet(table[i].name, scan) < FirstMet(table[j].name, scan)

\* C16: toppingFrequency (local store and Supabase) is sorted by count
\* descending with equal counts in first-encounter order, which fixes the list
\* for a given entry collection; topToppings is its first three elements, or
\* all of it when it has fewer.
FrequencyOrderedAndTopThree ==
    /\ OrderedByCountThenEncounter(toppingFrequency, LocalScan(lEntries))
    /\ variant = "supabase" =>
         OrderedByCountThenEncounter(BackendToppingFrequency, SupabaseScan(entries))
    /\ Len(topToppings) = (IF Len(toppingFrequency) < 3 THEN Len(toppingFrequency) ELSE 3)
    /\ \A i \in 1..Len(topToppings) : topToppings[i] = toppingFrequency[i]
    /\ shown.of = "local" =>
         /\ shown.toppingFrequency = toppingFrequency
         /\ shown.topToppings = topToppings
    /\ shown.of = "supabase" => shown.toppingFrequency = BackendToppingFrequency

\* C16 happens: the local views were read with more than three toppings in
\* the table (topToppings cuts it), the second and the third tied, and the
\* first, with a higher count, met later in the scan than the second
FrequencyTieSeen ==
    /\ shown.of = "local"
    /\ Len(shown.toppingFrequency) > 3
    /\ Len(shown.topToppings) = 3
    /\ shown.toppingFrequency[1].count > shown.toppingFrequency[2].count
    /\ shown.toppingFrequency[2].count = shown.toppingFrequency[3].count
    /\ FirstMet(shown.toppingFrequency[1].name, LocalScan(lEntries))
         > FirstMet(shown.toppingFrequency[2].name, LocalScan(lEntries))


RECURSIVE SumOfBuckets(_, _)
\* the sum of buckets 0..h of a histogram
SumOfBuckets(sales, h) ==
    sales[h] + (IF h = 0 THEN 0 ELSE SumOfBuckets(sales, h - 1))

\* C17: hourlySales (Supabase) has the 24 buckets 0..23, every entry counts in
\* exactly the bucket of the hour of its created_at, and the buckets sum to
\* totalHotdogs.
HourlySalesPartitionsEntries ==
    variant = "supabase" =>
        /\ DOMAIN hourlySales = 0..23
        /\ \A h \in 0..23 :
             hourlySales[h]
               = Cardinality({ j \in 1..Len(entries) : entries[j].created_at % 24 = h })
        /\ SumOfBuckets(hourlySales, 23) = SupabaseTotalHotdogs
        /\ shown.of = "supabase" =>
             /\ shown.hourlySales = hourlySales
             /\ shown.totalHotdogs = SupabaseTotalHotdogs

\* C17 happens: hourlySales was read with three entries, two of them of the
\* same hour on different days and one of another hour
HourlySalesSeen ==
    /\ shown.of = "supabase"
    /\ shown.totalHotdogs = 3
    /\ shown.hourlySales[1] = 2
    /\ shown.hourlySales[2] = 1
    /\ \E j \in 1..Len(entries) : entries[j].created_at >= HoursPerDay


\* a list holds the elements of another, each once (the elements are distinct)
PermutationOf(list, es) ==
    /\ Len(list) = Len(es)
    /\ { list[i] : i \in 1..Len(list) } = { es[i] : i \in 1..Len(es) }

\* C19: sortedEntries of the local store is a permutation of entries ordered
\* by createdAt ascending, equal createdAt by id ascending, and reading it
\* leaves entries as it was.
LocalSortedByCreatedAtThenId ==
    [][shown'.of = "local" =>
          /\ lEntries' = lEntries
          /\ PermutationOf(shown'.sortedEntries, lEntries)
          /\ \A i, j \in 1..Len(shown'.sortedEntries) :
               i < j =>
                 LET a == shown'.sortedEntries[i]
                     b == shown'.sortedEntries[j]
                 IN \/ a.createdAt < b.createdAt
                    \/ a.createdAt = b.createdAt /\ a.id < b.id]_vars

\* C19 happens: sortedEntries was read from three entries that are out of
\* order, two of them with the same createdAt and the higher id first
LocalSortSeen ==
    /\ shown.of = "local"
    /\ Len(lEntries) = 3
    /\ shown.sortedEntries # lEntries
    /\ \E i, j \in 1..Len(lEntries) :
         /\ i < j
         /\ lEntries[i].createdAt = lEntries[j].createdAt
         /\ lEntries[i].id > lEntries[j].id
    /\ \E i, j \in 1..Len(lEntries) :
         i < j /\ lEntries[i].createdAt > lEntries[j].createdAt


\* C20: in sortedEntries of the backend-backed variants two entries of the
\* same group (completed or pending) with equal created_at appear in ascending
\* id order, whatever order the backend returned them in.
BackendTiesSortedById ==
    \A i, j \in 1..Len(BackendSortedEntries) :
        LET a == BackendSortedEntries[i]
            b == BackendSortedEntries[j]
        IN (i < j /\ a.completed = b.completed /\ a.created_at = b.created_at)
              => a.id < b.id


\* C21: addCustomTopping adds nothing when the catalog already holds a
\* topping of that name, so the backend catalog holds at most one topping per
\* name.
CatalogHasOneToppingPerName ==
    \A t, q \in dbToppings : t.name = q.name => t = q

\* C23: the topping a successful addCustomTopping inserts has a display_order
\* greater than that of every topping the backend catalog held at the insert.
NewToppingOrderedLast ==
    [][(lastDone'.op = "addCustomTopping" /\ dbToppings' # dbToppings) =>
          \A new \in dbToppings' \ dbToppings :
             \A t \in dbToppings : new.display_order > t.display_order]_vars


\* the names a trimmed, non-blank name can never be
BlankOrPadded == {"", " ", " Cheese ", " Bacon"}

\* C22: ensureTopping(name) of the local store changes nothing for a blank
\* name or a name the catalog holds (exact match after trimming), adds exactly
\* the trimmed name otherwise, leaves the catalog without duplicates and
\* changes no entry.
EnsureToppingAddsOnce ==
    [][lastCall'.op = "ensureTopping" =>
          LET raw     == lastCall'.arg
              wanted  == CASE raw \in {"", " "} -> ""
                           [] raw \in {"Cheese", " Cheese "} -> "Cheese"
                           [] raw \in {"Bacon", " Bacon"} -> "Bacon"
                           [] OTHER -> raw
              before  == { lToppingOptions[i] : i \in 1..Len(lToppingOptions) }
              after   == { lToppingOptions'[i] : i \in 1..Len(lToppingOptions') }
          IN /\ lEntries' = lEntries
             /\ (wanted = "" \/ wanted \in before) => lToppingOptions' = lToppingOptions
             /\ (wanted # "" /\ wanted \notin before) =>
                   /\ after = before \cup {wanted}
                   /\ Len(lToppingOptions') = Len(lToppingOptions) + 1
             /\ Cardinality(after) = Len(lToppingOptions')
             /\ after \cap BlankOrPadded = {}]_vars

\* C22 happens: ensureTopping was called with a padded name, the catalog holds
\* its trimmed form once, also a name that differs from a default by case, and
\* the store holds an entry
EnsureToppingSeen ==
    /\ lastCall.op = "ensureTopping"
    /\ lastCall.arg = " Bacon"
    /\ Includes(lToppingOptions, "Bacon")
    /\ Includes(lToppingOptions, "cheese")
    /\ Includes(lToppingOptions, "Cheese")
    /\ Len(lEntries) > 0


\* the records of a blob that a run removed
RecordsRemoved(run, key) ==
    IF key = run.picked THEN run.records ELSE run.unpicked

\* C26: a legacy blob is removed only by a run that attempted an insert for
\* every record of that blob; a run that migrated the v2 records does not
\* remove the v1 blob.
RemovedBlobWasVisited ==
    \A k \in DOMAIN runs :
        \A key \in runs[k].removed :
            /\ key = runs[k].picked
            /\ \A i \in 1..Len(RecordsRemoved(runs[k], key)) :
                  \E j \in 1..Len(runs[k].attempts) : runs[k].attempts[j].idx = i

\* C27: a v1 blob of the shape the local-storage store persists (an object
\* with the entries in a field) is migrated: when no backend call fails, the
\* run creates one backend entry per stored entry and then removes the blob.
PersistedBlobIsMigrated ==
    \A k \in DOMAIN runs :
        (runs[k].done /\ runs[k].picked = "v1" /\ runs[k].shape = "object"
            /\ ~runs[k].failed) =>
            /\ Len(SelectSeq(runs[k].attempts, LAMBDA a : a.entryOk))
                 = Len(runs[k].records)
            /\ "v1" \in runs[k].removed


\* C24: in the Broadcast variant with an open channel, a mutation whose
\* backend write succeeded sends exactly one entry_change broadcast, sent when
\* the write is in the backend; a mutation whose write failed sends none.
OneBroadcastPerCommittedWrite ==
    [][\A c \in inFlight :
          (variant = "broadcast" /\ c.op \in Mutations) =>
             /\ FailedWrite(c) => Gone(c) /\ outbox' = <<>>
             /\ (Gone(c) /\ ~FailedWrite(c) /\ realtimeChannel = "open") =>
                   /\ c.at = "send"
                   /\ Len(outbox') = 1
                   /\ outbox'[1].event = "entry_change"
                   /\ outbox'[1].eventType = EventType(c.op)
                   /\ outbox'[1].backend = dbEntries'
             /\ (Gone(c) /\ c.at # "send") => outbox' = <<>>]_vars

\* C24 happens: with the channel open an update was written and broadcast
\* although the fetch after it failed, and an entry is in the backend
BroadcastSeen ==
    /\ variant = "broadcast"
    /\ realtimeChannel = "open"
    /\ inFlight = {}
    /\ Len(outbox) = 1
    /\ outbox[1].eventType = "UPDATE"
    /\ \E r \in dbEntries : r.completed
    /\ error = ErrorMessage


\* C29: in the Broadcast variant, once unsubscribeFromEntries has returned
\* (the channel is null again after notifications were received), the
\* notification responder starts no fetchEntries: a debounce timer pending at
\* the unsubscribe does not fire a re-fetch.
NoFetchAfterUnsubscribe ==
    [][(variant = "broadcast" /\ realtimeChannel = "null" /\ notified > 0)
          => rtFetches' = rtFetches]_vars


\* C28: in the start-up sequence of App.vue, the migration attaches to each
\* migrated entry every legacy topping name that equals the name of a topping
\* of the backend catalog, also when initializeStore failed before it.
StartupResolvesAgainstBackendCatalog ==
    \A k \in DOMAIN runs :
        LET run == runs[k]
        IN (run.mounting /\ run.done /\ run.readable /\ ~run.failed) =>
              \A i \in 1..Len(run.attempts) :
                  LET names == SelectSeq(run.records[i].toppings,
                                         LAMBDA n : \E t \in dbToppings : t.name = n)
                      ids   == ToppingIdsOf(run.attempts[i].id)
                  IN /\ Len(ids) = Len(names)
                     /\ \A n \in 1..Len(ids) :
                           \E t \in dbToppings : t.id = ids[n] /\ t.name = names[n]


\* C25: once no backend write is in progress and every started fetchEntries
\* call, of mutations and of the responder, has resolved, the last write
\* being followed by a fetch, entries.value is the backend's current set of
\* entries.
LocalConvergesToBackend ==
    (inFlight = {} /\ covered) =>
        entries \in FetchResults(variant, dbEntries, dbEntryToppings, dbToppings)

\* C30: loading.value is true in every state in which a store operation is
\* awaiting a backend or broadcast call, nested or overlapping ones included,
\* and false when none is in flight.
LoadingWhileInFlight ==
    loading <=> inFlight # {}

====
